---------------------------- MODULE Spec2Model ----------------------------
(***************************************************************************)
(* A model of the streaming transcription pipeline of notes-cli:           *)
(*   src/src/transcriber/transcriber.{h,cpp}  StreamingTranscriber,        *)
(*                                            SmartChunker                 *)
(*   src/src/main_fixed.cpp                   RealTimeTranscriptionApp     *)
(*                                                                         *)
(* Spec        the caller's thread, the audio reader (ingestion) thread    *)
(*             and the transcription (recognition worker) thread around    *)
(*             the bounded queue, its mutex and its condition variable.    *)
(* FairSpec    Spec with the fairness the scheduler gives to the threads.  *)
(* ChunkerSpec SmartChunker::processAudio fed with batches of samples.     *)
(*                                                                         *)
(* Texts are TLA+ strings, tokenised character by character as the         *)
(* std::istringstream extraction does.  Audio in the thread model is a     *)
(* chunk number (the order in which SmartChunker produced the chunk); the  *)
(* samples themselves are modelled in ChunkerSpec.                         *)
(***************************************************************************)
EXTENDS Integers, Sequences, FiniteSets, TLC

\* ------------------------------------------------------------------ bounds
\* Chunks the chunker hands to the reader thread over one behaviour.
MaxChunks == 11
\* start()/stop() calls the caller's thread makes over one behaviour.
MaxCalls == 3
\* Chunks the chunker hands over in a behaviour of FairSpec.
MaxLiveChunks == 2
\* Words in a text given to removeContextualOverlap, at most.
MaxTextWords == 3
\* Words in a text given to prepareContextPrompt, at most.
MaxPromptWords == 500
\* Samples in a chunk given to processAudioChunk in ContextAudioSpec, at most.
MaxChunkLen == 3
\* Samples in a buffer given to extractChunk, and in a batch given to one
\* processAudio call on its own, at most.
MaxBuffer == 6
\* Words in the texts over two words given to isRepetitiveText, at most.
MaxFilterWords == 6
\* processAudioChunk calls over one behaviour of ContextAudioSpec.
MaxRecognitions == 3
\* Samples in one batch handed to processAudio, at most.
MaxBatch == 5
\* Samples handed to processAudio over one behaviour of ChunkerSpec.
MaxSamples == 9
\* isVoiceActive calls on one detector between two resets, at most.
MaxFrames == 3

\* ------------------------------------------------------- program constants
\* transcriber.h:120
MAX_QUEUE_SIZE == 10
\* transcriber.h:163 has 16000 samples a second.  The chunker is modelled at a
\* scale of one sample a second, its durations in seconds instead of
\* milliseconds, so that `duration_ms * (SAMPLE_RATE / 1000)` is
\* `duration * SAMPLE_RATE` and the 2 s overlap of extractChunk is 2 samples.
SAMPLE_RATE == 1
\* The detector's floats are fixed-point numbers, in hundredths: an amplitude
\* or energy of 1.0 is 100.  transcriber.h:125 has the default threshold 0.6.
default_threshold == 60
\* transcriber.h:37: silence_threshold = 0.02, the ratio SmartChunker's
\* constructor hands to its detector (line 364), in hundredths.
chunker_vad_threshold == 2
\* transcriber.h:125 has a default window_size of 512 energies; scaled down.
default_window_size == 2
\* transcriber.cpp:346: alpha = 0.01, in hundredths.
alpha == 1
\* transcriber.h:28: vad_threshold = 0.6, in hundredths.
vad_threshold == 60
\* transcriber.cpp:221: the gate's smoothing factor alpha = 0.1, in hundredths.
gate_alpha == 10
\* TranscriptionConfig::silence_threshold, on the model's amplitude scale.
silence_threshold == 1
\* TranscriptionConfig::context_duration_ms (transcriber.h:43), in seconds.
context_duration == 2

VARIABLES
    \* StreamingTranscriber members
    is_running_,        \* std::atomic<bool>
    callback_,          \* 0: empty std::function; n: the callback start() call n gave
    audio_queue_,       \* std::queue of chunks (chunk numbers), front first
    audio_queue_mutex_, \* "free", "reader" or "worker": the owner
    context_,           \* ContextWindow: [previous_text, word_count]
    \* the three threads
    cpc,                \* caller's thread: position inside start()/stop()
    rpc,                \* audio_reader_thread_: "none" (no thread), ..., "done"
    wpc,                \* transcription_thread_: "none" (no thread), ..., "done"
    pipe_failed,        \* reader's ifstream has failbit/eofbit set
    r_chunk,            \* reader: the chunk processAudio returned (0: none)
    w_chunk,            \* worker: the chunk in processAudioChunk and what became of it
    \* the world outside and the history the properties speak about
    produced,           \* chunks the chunker has emitted so far
    ncalls,             \* start()/stop() calls made so far
    last_call,          \* what the last start()/stop() call did
    enqueued,           \* chunk numbers in the order they entered the queue
    dequeued,           \* chunk numbers in the order the worker took them
    dropped,            \* chunks discarded because the queue was full
    accepted,           \* the last text onTranscriptionResult wrote to the transcript
    stop_blocked,       \* stop() was called while the worker slept in wait()
    \* SmartChunker members, and what the chunker has been fed
    config_,            \* the chunker's TranscriptionConfig, durations in seconds
    buffer_,            \* std::vector<float>: amplitudes, oldest first
    last_speech_time_,  \* the speech clock, in samples (seconds * SAMPLE_RATE)
    chunk_out,          \* what the last processAudio call returned
    fed,                \* samples handed to processAudio so far
    largest_batch,      \* the longest batch handed to processAudio so far
    timestamps,         \* the timestamps of the chunks processAudio has returned
    source_chunks,      \* chunks' worth of audio the source holds in this behaviour
    vad_,               \* SmartChunker::vad_: the VoiceActivityDetector's members
    vad_out,            \* what the last isVoiceActive call saw and did
    \* the context manager's functions, applied on their own
    fn,                 \* the function applied last ("none": none yet)
    fn_args,            \* its arguments
    fn_out,             \* what it returned
    \* the audio side of the ContextWindow
    previous_audio,     \* context_.previous_audio
    engine_audio,       \* the samples the engine was last called with
    last_voiced,        \* the last chunk whose recognition gave a text
    enable_vad,         \* StreamingTranscriber::config_.enable_vad
    running_energy_avg_,\* the gate's running energy average, in hundredths
    recognitions        \* processAudioChunk calls so far in ContextAudioSpec

pipelinev == << is_running_, callback_, audio_queue_, audio_queue_mutex_, context_,
                cpc, rpc, wpc, pipe_failed, r_chunk, w_chunk,
                produced, ncalls, last_call, enqueued, dequeued, dropped, accepted,
                stop_blocked >>

chunkerv == << config_, buffer_, last_speech_time_, chunk_out, fed, largest_batch,
               timestamps, source_chunks, vad_, vad_out >>

contextv == << fn, fn_args, fn_out, previous_audio, engine_audio, last_voiced,
               enable_vad, running_energy_avg_, recognitions >>

vars == << pipelinev, chunkerv, contextv >>


\* ---------------------------------------------------------------- texts
\* The characters `iss >> word` skips and splits on.
IsSpace(c) == c \in {" ", "\t", "\n"}

\* A word begins at position i of s.
StartsWord(s, i) ==
    /\ ~IsSpace(SubSeq(s, i, i))
    /\ (i = 1 \/ IsSpace(SubSeq(s, i - 1, i - 1)))

\* A word ends at position i of s.
EndsWord(s, i) ==
    /\ ~IsSpace(SubSeq(s, i, i))
    /\ (i = Len(s) \/ IsSpace(SubSeq(s, i + 1, i + 1)))

RECURSIVE WordBounds(_, _, _, _)
\* The positions of s[lo..hi], in order, at which a word begins (first) or ends.
\* The range is halved rather than walked, so that texts of hundreds of words
\* stay within the evaluator's depth.
WordBounds(s, lo, hi, first) ==
    IF lo > hi THEN << >>
    ELSE IF lo = hi
         THEN IF (first /\ StartsWord(s, lo)) \/ (~first /\ EndsWord(s, lo))
              THEN << lo >> ELSE << >>
         ELSE LET mid == (lo + hi) \div 2
              IN  WordBounds(s, lo, mid, first) \o WordBounds(s, mid + 1, hi, first)

RECURSIVE WordsBetween(_, _, _, _, _)
\* The lo-th to the hi-th word of s, given where its words begin and end.
WordsBetween(s, starts, ends, lo, hi) ==
    IF lo > hi THEN << >>
    ELSE IF lo = hi THEN << SubSeq(s, starts[lo], ends[lo]) >>
    ELSE LET mid == (lo + hi) \div 2
         IN  WordsBetween(s, starts, ends, lo, mid)
                 \o WordsBetween(s, starts, ends, mid + 1, hi)

\* std::istringstream extraction, `while (iss >> word)`: the maximal runs of
\* non-whitespace characters of s, in order.
Words(s) ==
    LET starts == WordBounds(s, 1, Len(s), TRUE)
        ends   == WordBounds(s, 1, Len(s), FALSE)
    IN  WordsBetween(s, starts, ends, 1, Len(starts))

RECURSIVE JoinBetween(_, _, _)
\* words[lo..hi] with a single space between neighbours.
JoinBetween(words, lo, hi) ==
    IF lo > hi THEN ""
    ELSE IF lo = hi THEN words[lo]
    ELSE LET mid == (lo + hi) \div 2
         IN  JoinBetween(words, lo, mid) \o " " \o JoinBetween(words, mid + 1, hi)

\* words[i..] appended one by one, a single space before each but the first
\* (`if (!text.empty()) text += " "; text += words[i]`).
JoinFrom(words, i) == JoinBetween(words, i, Len(words))

\* The elements of a sequence.
Range(seq) == {seq[i] : i \in 1..Len(seq)}

Min(a, b) == IF a <= b THEN a ELSE b
Max(a, b) == IF a >= b THEN a ELSE b

\* ------------------------------------------------------ repetition filter
\* std::ispunct in the "C" locale, for the characters the model's texts use.
IsPunct(c) == c \in {".", ",", "!", "?", ";", ":", "'", "-"}

\* ::tolower for the letters the model's texts use.
ToLower(c) ==
    CASE c = "A" -> "a" [] c = "B" -> "b" [] c = "G" -> "g" [] c = "H" -> "h"
      [] c = "O" -> "o" [] c = "T" -> "t" [] c = "Y" -> "y" [] OTHER -> c

RECURSIVE CleanWord(_, _)
\* remove_if(ispunct) then transform(tolower), from position i of word w.
CleanWord(w, i) ==
    IF i > Len(w) THEN ""
    ELSE LET c == SubSeq(w, i, i) IN
         IF IsPunct(c) THEN CleanWord(w, i + 1)
                       ELSE ToLower(c) \o CleanWord(w, i + 1)

\* The words of the text, cleaned, the empty ones left out (lines 297-311).
CleanWords(text) ==
    LET ws == Words(text)
        cs == [i \in 1..Len(ws) |-> CleanWord(ws[i], 1)]
    IN  SelectSeq(cs, LAMBDA w : w # "")

common_words ==
    {"the", "and", "or", "but", "in", "on", "at", "to", "for", "of", "with", "by",
     "a", "an", "is", "are", "was", "were", "be", "been", "have", "has", "had",
     "do", "does", "did", "will", "would", "could", "should", "can", "may", "might",
     "i", "you", "he", "she", "it", "we", "they", "me", "him", "her", "us", "them",
     "this", "that", "these", "those", "here", "there", "where", "when", "why", "how",
     "what", "who", "which", "so", "now", "then", "well", "okay", "ok", "yeah", "yes",
     "no", "not", "just", "like", "know", "think", "see", "look", "get", "go", "come"}

\* Positions j < len at which the window at offset i (0-based) equals the pattern
\* at offset start (lines 351-356).
PatternMatches(words, start, i, len) ==
    Cardinality({j \in 0..(len - 1) : words[i + j + 1] = words[start + j + 1]})

\* Windows that equal the pattern in every position (lines 358-359).
ExactCount(words, start, len) ==
    Cardinality({i \in 0..(Len(words) - len) :
                    PatternMatches(words, start, i, len) = len})

\* Other windows with matches >= len * 0.7 (lines 360-361).
FuzzyCount(words, start, len) ==
    Cardinality({i \in 0..(Len(words) - len) :
                    /\ PatternMatches(words, start, i, len) # len
                    /\ 10 * PatternMatches(words, start, i, len) >= 7 * len})

\* A threshold of three repetitions whatever the length of the text.
RepetitionThresholdFlat(total_words) == 3

\* Lines 366-374.
RepetitionThreshold(total_words) ==
    IF total_words > 50 THEN Max(5, total_words \div 15)
    ELSE IF total_words > 20 THEN 4
    ELSE 3

\* The pattern at `start` of length `len` makes the text repetitive (lines 334-385):
\* not all common words, and exact >= threshold or exact + fuzzy >= threshold with
\* (exact + 0.5 * fuzzy) * len / total > 0.4.
PatternFlags(words, start, len) ==
    LET total == Len(words)
        exact == ExactCount(words, start, len)
        fuzzy == FuzzyCount(words, start, len)
        thr   == RepetitionThreshold(total)
    IN  /\ \E j \in 0..(len - 1) : words[start + j + 1] \notin common_words
        /\ \/ exact >= thr
           \/ /\ exact + fuzzy >= thr
              /\ (2 * exact + fuzzy) * len * 5 > 4 * total

\* A filter that takes one-word patterns and has no minimum length.
isRepetitiveTextAnyLength(text) ==
    LET words == CleanWords(text)
        total == Len(words)
    IN  \E len \in 1..Min(8, Max(1, total \div 3)) :
           \E start \in 0..(total - len) : PatternFlags(words, start, len)

\* A filter whose patterns may be half as long as the text, not a third.
isRepetitiveTextHalfPatterns(text) ==
    IF Len(text) < 10 THEN FALSE
    ELSE LET words == CleanWords(text)
             total == Len(words)
         IN  IF total < 4 THEN FALSE
             ELSE \E len \in Max(2, total \div 20)..Min(8, total \div 2) :
                    \E start \in 0..(total - len) : PatternFlags(words, start, len)

\* RealTimeTranscriptionApp::isRepetitiveText
isRepetitiveText(text) ==
    IF Len(text) < 10 THEN FALSE
    ELSE LET words == CleanWords(text)
             total == Len(words)
         IN  IF total < 4 THEN FALSE
             ELSE \E len \in Max(2, total \div 20)..Min(8, total \div 3) :
                    \E start \in 0..(total - len) : PatternFlags(words, start, len)

\* ------------------------------------------------------- context manager
\* config_.max_prompt_tokens (transcriber.h:44) and config_.remove_context_overlap
max_prompt_tokens == 200

\* A prompt made of the first max_words words, not the last.
prepareContextPromptFirst(previous_text) ==
    IF previous_text = "" THEN ""
    ELSE LET words     == Words(previous_text)
             max_words == Min(max_prompt_tokens \div 2, Len(words))
         IN  IF max_words <= 0 THEN ""
             ELSE JoinFrom(SubSeq(words, 1, max_words), 1)

\* StreamingTranscriber::prepareContextPrompt
prepareContextPrompt(previous_text) ==
    IF previous_text = "" THEN ""
    ELSE LET words     == Words(previous_text)
             max_words == Min(max_prompt_tokens \div 2, Len(words))
         IN  IF max_words <= 0 THEN ""
             ELSE JoinFrom(words, Len(words) - max_words + 1)

\* Line 599-605: the last i words of the previous text equal the first i words
\* of the current one.
TailMatchesHead(prev_words, curr_words, i) ==
    \A j \in 0..(i - 1) : prev_words[Len(prev_words) - i + j + 1] = curr_words[j + 1]

RECURSIVE ScanOverlapKeepFirst(_, _, _, _, _)
\* A scan in which a later match does not overwrite an earlier one.
ScanOverlapKeepFirst(prev_words, curr_words, i, max_check, overlap_count) ==
    IF i > max_check THEN overlap_count
    ELSE ScanOverlapKeepFirst(prev_words, curr_words, i + 1, max_check,
                              IF overlap_count = 0
                                 /\ TailMatchesHead(prev_words, curr_words, i)
                              THEN i ELSE overlap_count)

RECURSIVE ScanOverlap(_, _, _, _, _)
\* The loop of lines 598-609 from candidate length i on: every length up to
\* max_check is tried, and each match overwrites overlap_count.
ScanOverlap(prev_words, curr_words, i, max_check, overlap_count) ==
    IF i > max_check THEN overlap_count
    ELSE ScanOverlap(prev_words, curr_words, i + 1, max_check,
                     IF TailMatchesHead(prev_words, curr_words, i)
                     THEN i ELSE overlap_count)

\* The scan without the limit of 10 words of line 596.
OverlapCountUncapped(prev_words, curr_words) ==
    ScanOverlap(prev_words, curr_words, 1, Min(Len(prev_words), Len(curr_words)), 0)

\* Lines 594-609: the overlap length the scan retains.
OverlapCount(prev_words, curr_words) ==
    ScanOverlap(prev_words, curr_words, 1,
                Min(Min(Len(prev_words), Len(curr_words)), 10), 0)

\* Overlap removal without the `overlap_count < curr_words.size()` test.
removeContextualOverlapWhole(previous_text, text) ==
    IF previous_text = "" \/ text = "" THEN text
    ELSE LET prev_words    == Words(previous_text)
             curr_words    == Words(text)
             overlap_count == OverlapCount(prev_words, curr_words)
         IN  IF overlap_count > 0
             THEN JoinFrom(curr_words, overlap_count + 1)
             ELSE text

\* StreamingTranscriber::removeContextualOverlap, on the text of the result.
removeContextualOverlap(previous_text, text) ==
    IF previous_text = "" \/ text = "" THEN text
    ELSE LET prev_words    == Words(previous_text)
             curr_words    == Words(text)
             overlap_count == OverlapCount(prev_words, curr_words)
         IN  IF overlap_count > 0 /\ overlap_count < Len(curr_words)
             THEN JoinFrom(curr_words, overlap_count + 1)
             ELSE text


\* ------------------------------------------------------------ the queue
\* Enqueue without the capacity test of line 122.
EnqueueUnbounded(queue, chunk) == Append(queue, chunk)

\* Enqueue that makes room by letting the oldest chunk go.
EnqueueDropOldest(queue, chunk) ==
    IF Len(queue) < MAX_QUEUE_SIZE THEN Append(queue, chunk)
    ELSE Append(Tail(queue), chunk)

\* Lines 122-125 (and 132-135): the queue after the reader offers `chunk`.
Enqueue(queue, chunk) ==
    IF Len(queue) < MAX_QUEUE_SIZE THEN Append(queue, chunk) ELSE queue

\* The newest chunk instead of the oldest: back() for front().
QueueBack(queue) == queue[Len(queue)]

\* Line 174: audio_queue_.front()
QueueFront(queue) == Head(queue)

\* Line 175: audio_queue_.pop()
QueuePop(queue) == Tail(queue)

\* --------------------------------------------------- the recognition step
\* What the engine call of lines 474-500 can leave in `transcription`: the
\* segments trimmed and joined by single spaces; "" when there is no segment.
EngineTexts ==
    {"", "the cat sat", "thank you thank you thank you"}

\* The worker's record of one chunk: its number, how far processAudioChunk has
\* got, what the gate and the engine did, the result's text, the previous_text the
\* engine was primed with, and the callback calls and transcript lines it led to.
NoChunk ==
    [id |-> 0, stage |-> "none", engine |-> "none", text |-> "", primed_with |-> "",
     cbs |-> 0, outs |-> 0, by |-> "none"]

\* Line 203 without the test for an empty text.
InvokesCallbackAlways(text, cb) == cb # 0

\* Line 203: `if (!result.text.empty() && callback_)`
InvokesCallback(text, cb) == text # "" /\ cb # 0

\* Line 198 without the test for an empty text.
UpdatesContextAlways(text) == TRUE

\* Line 198: `if (config_.enable_context && !result.text.empty())`
UpdatesContext(text) == text # ""

\* isRepetitiveText on the engine's texts, worked out once.
FilterVerdict == [t \in EngineTexts |-> isRepetitiveText(t)]

\* RealTimeTranscriptionApp::onTranscriptionResult reaches formatTranscription
\* and the output (lines 236-261).
Transcribes(text) ==
    /\ text # ""
    /\ ~(Len(text) < 3
         \/ IF text \in EngineTexts THEN FilterVerdict[text] ELSE isRepetitiveText(text))

\* removeContextualOverlap on the engine's texts, worked out once.
OverlapRemoved ==
    [p \in EngineTexts |-> [e \in EngineTexts |-> removeContextualOverlap(p, e)]]

\* StreamingTranscriber::transcribeWithContext on the engine's text (lines 500-512).
ResultText(previous_text, engine_text) ==
    IF previous_text # ""
    THEN IF previous_text \in EngineTexts /\ engine_text \in EngineTexts
         THEN OverlapRemoved[previous_text][engine_text]
         ELSE removeContextualOverlap(previous_text, engine_text)
    ELSE engine_text

\* The words of each of the engine's texts, counted once.
WordCount == [t \in EngineTexts |-> Len(Words(t))]

\* StreamingTranscriber::updateContext
updateContext(text) ==
    [previous_text |-> text,
     word_count |-> IF text \in EngineTexts THEN WordCount[text] ELSE Len(Words(text))]

\* One access to a ContextWindow field: where, which field, read or write, and
\* whether context_mutex_ is held there.
ContextAccess(line, field, kind, locked) ==
    [line |-> line, field |-> field, kind |-> kind, locked |-> locked]

\* The accesses to context_ that processAudioChunk makes for one chunk, in order:
\* prepareContextualAudio (lock_guard, line 627), the prompt (lock_guard, line
\* 442), then, unless the engine failed, the test of line 508 and
\* removeContextualOverlap (no lock), and updateContext (lock_guard, line 516)
\* when the result's text is not empty.  `previous_text` is the context's text
\* before the chunk, `engine_text` the engine's, `text` the result's.
ContextAccesses(failed, previous_text, engine_text, text) ==
    << ContextAccess(630, "previous_audio", "read", TRUE),
       ContextAccess(443, "previous_text", "read", TRUE) >>
    \o (IF failed THEN << >>
        ELSE << ContextAccess(508, "previous_text", "read", FALSE) >>
             \o (IF previous_text = "" THEN << >>
                 ELSE << ContextAccess(578, "previous_text", "read", FALSE) >>
                      \o (IF engine_text = "" THEN << >>
                          ELSE << ContextAccess(583, "previous_text", "read", FALSE) >>)))
    \o (IF ~UpdatesContext(text) THEN << >>
        ELSE << ContextAccess(519, "previous_text", "write", TRUE),
                ContextAccess(520, "timestamp", "write", TRUE),
                ContextAccess(523, "word_count", "write", TRUE),
                ContextAccess(533, "previous_audio", "write", TRUE) >>)

\* ------------------------------------------------------------ the chunker
\* Amplitudes |sample| of the model: 0 is below silence_threshold, 2 above it.
Samples == {0, 2}

\* Chunker configurations, durations in seconds, each with min <= optimal <= max
\* and a silence window no longer than the optimal chunk.
Configs ==
    { [min_chunk_duration |-> 1, optimal_chunk_duration |-> 1,
       max_chunk_duration |-> 2, min_silence_duration |-> 1],
      [min_chunk_duration |-> 2, optimal_chunk_duration |-> 3,
       max_chunk_duration |-> 5, min_silence_duration |-> 2],
      [min_chunk_duration |-> 3, optimal_chunk_duration |-> 3,
       max_chunk_duration |-> 3, min_silence_duration |-> 2],
      [min_chunk_duration |-> 2, optimal_chunk_duration |-> 4,
       max_chunk_duration |-> 5, min_silence_duration |-> 4] }

\* Lines 370-373, 382: the configuration's durations in samples.
min_samples(cfg)     == cfg.min_chunk_duration * SAMPLE_RATE
max_samples(cfg)     == cfg.max_chunk_duration * SAMPLE_RATE
optimal_samples(cfg) == cfg.optimal_chunk_duration * SAMPLE_RATE
silence_samples(cfg) == cfg.min_silence_duration * SAMPLE_RATE

\* Line 423: `int overlap_samples = 2 * SAMPLE_RATE`
overlap_samples == 2 * SAMPLE_RATE

\* `i < buffer_.size() - silence_samples` of line 385.  The difference is
\* computed in size_t: when the buffer is shorter than the window it wraps to a
\* value above every int, and the comparison holds.
BelowSizeMinus(i, size, n) == IF size >= n THEN i < size - n ELSE TRUE

\* A window test that takes an amplitude equal to the threshold as sound.
isSilentWindowBelow(audio, start, length) ==
    \A i \in start..(start + length - 1) :
        i < Len(audio) => audio[i + 1] < silence_threshold

\* SmartChunker::isSilentWindow, `start` counted from 0.
isSilentWindow(audio, start, length) ==
    \A i \in start..(start + length - 1) :
        i < Len(audio) => ~(audio[i + 1] > silence_threshold)

\* A scan that starts at the minimum chunk length, not the optimal one.
ScanOffsetsFromMin(cfg, size) ==
    {i \in min_samples(cfg)..(max_samples(cfg) - 1) :
        BelowSizeMinus(i, size, silence_samples(cfg))}

\* The offsets the loop of line 385 visits, in ascending order.
ScanOffsets(cfg, size) ==
    {i \in optimal_samples(cfg)..(max_samples(cfg) - 1) :
        BelowSizeMinus(i, size, silence_samples(cfg))}

NoOutput == [has |-> FALSE, audio |-> << >>, timestamp |-> 0]

\* extractChunk that takes the chunk and erases nothing.
extractChunkKeepBuffer(buf, time, samples) ==
    [chunk  |-> [has |-> TRUE, audio |-> SubSeq(buf, 1, samples), timestamp |-> time],
     buffer |-> buf,
     time   |-> time + (samples - overlap_samples)]

\* extractChunk that advances the clock by the whole length of the chunk.
extractChunkClockByLength(buf, time, samples) ==
    [chunk  |-> [has |-> TRUE, audio |-> SubSeq(buf, 1, samples), timestamp |-> time],
     buffer |-> IF samples > overlap_samples
                THEN SubSeq(buf, samples - overlap_samples + 1, Len(buf))
                ELSE << >>,
     time   |-> time + samples]

\* SmartChunker::extractChunk on a buffer `buf` with the clock at `time`: the
\* chunk, the buffer it leaves and the clock it leaves.
extractChunk(buf, time, samples) ==
    [chunk  |-> [has |-> TRUE, audio |-> SubSeq(buf, 1, samples), timestamp |-> time],
     buffer |-> IF samples > overlap_samples
                THEN SubSeq(buf, samples - overlap_samples + 1, Len(buf))
                ELSE << >>,
     time   |-> time + (samples - overlap_samples)]

\* processAudio whose forced cut takes all that is buffered.
processAudioCutAll(cfg, buffer, time, new_audio) ==
    LET buf   == buffer \o new_audio
        none  == [chunk |-> NoOutput, buffer |-> buf, time |-> time]
        found == {i \in ScanOffsets(cfg, Len(buf)) :
                     isSilentWindow(buf, i, silence_samples(cfg))}
        first == CHOOSE i \in found : \A k \in found : i <= k
    IN  IF Len(buf) < min_samples(cfg) THEN none
        ELSE IF Len(buf) >= optimal_samples(cfg) /\ found # {}
        THEN extractChunk(buf, time, first + silence_samples(cfg) \div 2)
        ELSE IF Len(buf) >= max_samples(cfg)
        THEN extractChunk(buf, time, Len(buf))
        ELSE none

\* SmartChunker::processAudio on a chunker with buffer `buffer`, clock `time`.
processAudio(cfg, buffer, time, new_audio) ==
    LET buf   == buffer \o new_audio
        none  == [chunk |-> NoOutput, buffer |-> buf, time |-> time]
        found == {i \in ScanOffsets(cfg, Len(buf)) :
                     isSilentWindow(buf, i, silence_samples(cfg))}
        first == CHOOSE i \in found : \A k \in found : i <= k
    IN  IF Len(buf) < min_samples(cfg) THEN none
        ELSE IF Len(buf) >= optimal_samples(cfg) /\ found # {}
        THEN extractChunk(buf, time, first + silence_samples(cfg) \div 2)
        ELSE IF Len(buf) >= max_samples(cfg)
        THEN extractChunk(buf, time, max_samples(cfg))
        ELSE none

\* The batches of samples a processAudio call can be given.
Batches == UNION {[1..n -> Samples] : n \in 1..MaxBatch}

\* ------------------------------------------------ VoiceActivityDetector
\* The amplitudes of a window's samples, in hundredths.
VadAmplitudes == {0, 100, 200, 400}

\* The windows isVoiceActive is called with, of one sample or two; none is
\* empty (the energy of an empty window is 0/0).
VadWindows == UNION {[1..n -> VadAmplitudes] : n \in {1, 2}}

\* The largest r of lo..hi whose square is at most x, found by bisection.
RECURSIVE SqrtBetween(_, _, _)
SqrtBetween(x, lo, hi) ==
    IF lo = hi THEN lo
    ELSE LET mid == (lo + hi + 1) \div 2 IN
         IF mid * mid <= x THEN SqrtBetween(x, mid, hi)
         ELSE SqrtBetween(x, lo, mid - 1)

\* std::sqrt of line 342, rounded down to the fixed-point grid; the squares
\* of the roots tried stay within 32 bits.
Sqrt(x) == SqrtBetween(x, 0, IF x < 46340 THEN x ELSE 46340)

\* The loop of lines 339-341: the sum of the squares of the first n samples.
RECURSIVE SumOfSquares(_, _)
SumOfSquares(audio_data, n) ==
    IF n = 0 THEN 0
    ELSE SumOfSquares(audio_data, n - 1) + audio_data[n] * audio_data[n]

\* VoiceActivityDetector::calculateEnergy (lines 337-343): the root mean square.
calculateEnergy(audio_data) ==
    Sqrt(SumOfSquares(audio_data, Len(audio_data)) \div Len(audio_data))

\* VoiceActivityDetector's constructor (lines 300-306).
VoiceActivityDetector(threshold, window_size) ==
    [threshold_ |-> threshold, window_size_ |-> window_size,
     energy_buffer_ |-> << >>, background_energy_ |-> 0, frame_count_ |-> 0]

\* VoiceActivityDetector::reset (lines 331-335).
reset(vad) ==
    [vad EXCEPT !.energy_buffer_ = << >>, !.background_energy_ = 0,
                !.frame_count_ = 0]

\* updateBackgroundEnergy with the test of line 352 left out: every frame but
\* the first is smoothed into the estimate.
updateBackgroundEnergyAlways(vad, energy) ==
    [vad EXCEPT
        !.background_energy_ =
            IF vad.frame_count_ = 0 THEN energy
            ELSE (alpha * energy + (100 - alpha) * vad.background_energy_) \div 100,
        !.frame_count_ = vad.frame_count_ + 1]

\* VoiceActivityDetector::updateBackgroundEnergy (lines 345-358).
updateBackgroundEnergy(vad, energy) ==
    [vad EXCEPT
        !.background_energy_ =
            IF vad.frame_count_ = 0 THEN energy
            ELSE IF energy < vad.background_energy_ * 2
                 THEN (alpha * energy + (100 - alpha) * vad.background_energy_) \div 100
                 ELSE vad.background_energy_,
        !.frame_count_ = vad.frame_count_ + 1]

\* The sum of the energies kept in the buffer (lines 321-324).
RECURSIVE SumOfEnergies(_, _)
SumOfEnergies(energies, n) ==
    IF n = 0 THEN 0 ELSE SumOfEnergies(energies, n - 1) + energies[n]

\* VoiceActivityDetector::isVoiceActive (lines 308-329): the detector after the
\* call, the energy of the window and the value returned.  The decision
\* avg_energy > threshold_ * background_energy_ is taken without the division.
isVoiceActive(vad, audio_data) ==
    LET energy   == calculateEnergy(audio_data)
        updated  == updateBackgroundEnergy(vad, energy)
        pushed   == Append(vad.energy_buffer_, energy)
        energies == IF Len(pushed) > vad.window_size_ THEN Tail(pushed) ELSE pushed
    IN  [vad    |-> [updated EXCEPT !.energy_buffer_ = energies],
         energy |-> energy,
         active |-> 100 * SumOfEnergies(energies, Len(energies))
                        > vad.threshold_ * updated.background_energy_ * Len(energies)]

\* No isVoiceActive call made yet.
NoVadOutput == [frame |-> -1, energy |-> 0, before |-> 0, after |-> 0, active |-> FALSE]

\* One isVoiceActive call on the detector: vad_out keeps the frame_count_ and
\* background_energy_ the call found, the energy it computed, the
\* background_energy_ it left and the value it returned.
IsVoiceActive ==
    /\ vad_.frame_count_ < MaxFrames
    /\ \E audio_data \in VadWindows :
         LET r == isVoiceActive(vad_, audio_data) IN
         /\ vad_' = r.vad
         /\ vad_out' = [frame |-> vad_.frame_count_, energy |-> r.energy,
                        before |-> vad_.background_energy_,
                        after |-> r.vad.background_energy_, active |-> r.active]
    /\ UNCHANGED << config_, buffer_, last_speech_time_, chunk_out, fed, largest_batch,
                    timestamps, source_chunks, pipelinev, contextv >>

\* One reset() call on a detector that has seen a frame.
VadReset ==
    /\ vad_.frame_count_ > 0
    /\ vad_' = reset(vad_)
    /\ UNCHANGED << config_, buffer_, last_speech_time_, chunk_out, fed, largest_batch,
                    timestamps, source_chunks, vad_out, pipelinev, contextv >>

\* The chunker as SmartChunker's constructor leaves it (lines 361-365).
ChunkerInit(cfg) ==
    /\ config_ = cfg
    /\ buffer_ = << >>
    /\ last_speech_time_ = 0
    /\ chunk_out = NoOutput
    /\ fed = 0
    /\ largest_batch = 0
    /\ timestamps = << >>
    /\ vad_ = VoiceActivityDetector(chunker_vad_threshold, default_window_size)
    /\ vad_out = NoVadOutput

\* One call of SmartChunker::processAudio (the reader thread, line 118).
ProcessAudio ==
    /\ \E new_audio \in Batches :
         LET r == processAudio(config_, buffer_, last_speech_time_, new_audio) IN
         /\ fed + Len(new_audio) <= MaxSamples
         /\ buffer_' = r.buffer
         /\ last_speech_time_' = r.time
         /\ chunk_out' = r.chunk
         /\ fed' = fed + Len(new_audio)
         /\ largest_batch' = Max(largest_batch, Len(new_audio))
         /\ timestamps' = IF r.chunk.has THEN Append(timestamps, r.chunk.timestamp)
                          ELSE timestamps
    /\ UNCHANGED << config_, source_chunks, vad_, vad_out, pipelinev, contextv >>

\* --------------------------------------- the chunker's functions alone
\* Amplitudes |sample| below, at and above silence_threshold.
Amplitudes == {0, 1, 2}

\* The buffers extractChunk is applied to.
Buffers == UNION {[1..n -> Samples] : n \in 1..MaxBuffer}

\* The arguments extractChunk is applied to: a buffer, the clock, and an offset
\* within the buffer.
ExtractArgs ==
    {<< buf, time, samples >> : buf \in Buffers, time \in {0, 3}, samples \in 1..MaxBuffer}

\* The arguments one processAudio call is applied to: a configuration, the
\* buffer of a chunker that has been fed less than the minimum chunk and has
\* returned nothing yet, its clock, and the batch.
ProcessArgs ==
    {<< cfg, buffer, 0, new_audio >> :
        cfg \in Configs,
        buffer \in UNION {[1..n -> Amplitudes] : n \in 0..2},
        new_audio \in UNION {[1..n -> Amplitudes] : n \in 1..MaxBuffer}}

\* extractChunk applied on its own.
ApplyExtractChunk ==
    /\ fn = "none"
    /\ Len(fn_args) = 3
    /\ fn' = "extractChunk"
    /\ fn_out' = extractChunk(fn_args[1], fn_args[2], fn_args[3])
    /\ UNCHANGED fn_args
    /\ UNCHANGED << pipelinev, chunkerv, previous_audio, engine_audio, last_voiced,
                    enable_vad, running_energy_avg_, recognitions >>

\* One processAudio call applied on its own.
ApplyProcessAudio ==
    /\ fn = "none"
    /\ Len(fn_args) = 4
    /\ fn' = "processAudio"
    /\ fn_out' = processAudio(fn_args[1], fn_args[2], fn_args[3], fn_args[4])
    /\ UNCHANGED fn_args
    /\ UNCHANGED << pipelinev, chunkerv, previous_audio, engine_audio, last_voiced,
                    enable_vad, running_energy_avg_, recognitions >>

\* ------------------------------------- the context manager's functions
\* Line 471: the prompt handed to the engine, none (nullptr) for an empty one.
initial_prompt(context_prompt) ==
    IF context_prompt = "" THEN [primed |-> FALSE, text |-> ""]
    ELSE [primed |-> TRUE, text |-> context_prompt]

\* The letter the n-th word of a generated text consists of.
LetterOf(n) == << "a", "b", "c", "d", "e", "f", "g" >>[((n - 1) % 7) + 1]

RECURSIVE LetterWords(_, _)
\* The lo-th to the hi-th one-letter word, single spaces between them.
LetterWords(lo, hi) ==
    IF lo > hi THEN ""
    ELSE IF lo = hi THEN LetterOf(lo)
    ELSE LET mid == (lo + hi) \div 2
         IN  LetterWords(lo, mid) \o " " \o LetterWords(mid + 1, hi)

\* A text of n one-letter words with single spaces between them.
LetterText(n) == LetterWords(1, n)

RECURSIVE SpacedText(_, _)
\* The words ws[i..] with a single space between them.
SpacedText(ws, i) ==
    IF i > Len(ws) THEN ""
    ELSE IF i = Len(ws) THEN ws[i]
    ELSE ws[i] \o " " \o SpacedText(ws, i + 1)

\* The texts removeContextualOverlap is applied to, as previous_text and as the
\* result's text: every text of up to MaxTextWords words "a" and "b", texts with
\* other whitespace, texts of more than the 10 words the scan looks at, and the
\* two texts of the documented example.
OverlapTexts ==
    {SpacedText(ws, 1) : ws \in UNION {[1..n -> {"a", "b"}] : n \in 0..MaxTextWords}}
    \cup {" a  b", "b a ", "a\tb a", "a\nb",
          JoinFrom([k \in 1..11 |-> "a"], 1), JoinFrom([k \in 1..12 |-> "a"], 1),
          JoinFrom([k \in 1..12 |-> IF k = 11 THEN "b" ELSE "a"], 1),
          "the quick brown fox jumps", "brown fox jumps over the lazy dog"}

\* The texts prepareContextPrompt is applied to: short ones, ones around the
\* max_prompt_tokens / 2 = 100 words that are kept, a long one, and ones with
\* other whitespace.
PromptTexts ==
    {LetterText(n) : n \in {0, 1, 2, 99, 100, 101, MaxPromptWords}}
    \cup {" ", "  a  b ", "a\tb\n", "the quick brown fox jumps"}

\* removeContextualOverlap applied on its own.
ApplyRemoveOverlap ==
    /\ fn = "none"
    /\ Len(fn_args) = 2
    /\ fn' = "removeContextualOverlap"
    /\ fn_out' = [text |-> removeContextualOverlap(fn_args[1], fn_args[2]),
                  overlap_count |->
                      IF fn_args[1] = "" \/ fn_args[2] = "" THEN 0
                      ELSE OverlapCount(Words(fn_args[1]), Words(fn_args[2]))]
    /\ UNCHANGED fn_args
    /\ UNCHANGED << pipelinev, chunkerv, previous_audio, engine_audio, last_voiced,
                    enable_vad, running_energy_avg_, recognitions >>

\* prepareContextPrompt applied on its own, and the prompt the engine gets
\* (lines 443, 471).
ApplyPreparePrompt ==
    /\ fn = "none"
    /\ Len(fn_args) = 1
    /\ fn' = "prepareContextPrompt"
    /\ fn_out' = [text |-> prepareContextPrompt(fn_args[1]),
                  initial_prompt |-> initial_prompt(prepareContextPrompt(fn_args[1]))]
    /\ UNCHANGED fn_args
    /\ UNCHANGED << pipelinev, chunkerv, previous_audio, engine_audio, last_voiced,
                    enable_vad, running_energy_avg_, recognitions >>

\* ------------------------------------------ the repetition filter alone
\* Filler words lo..hi of a generated text, each different from every other word.
Fillers(lo, hi) == [k \in 1..(hi - lo + 1) |-> "w" \o ToString(lo + k - 1)]

RECURSIVE Repeat(_, _)
\* The words of `pattern`, n times over.
Repeat(pattern, n) == IF n = 0 THEN << >> ELSE pattern \o Repeat(pattern, n - 1)

\* The text of the given words followed by filler words up to `total` words.
PaddedText(words, total) ==
    JoinFrom(words \o Fillers(Len(words) + 1, total), 1)

\* A four-word pattern, then twice the pattern with one word changed.
NearRepeats ==
    << "red", "blue", "cat", "dog", "red", "blue", "cat", "fox",
       "red", "elk", "cat", "dog" >>

\* The texts isRepetitiveText is applied to: every text of up to MaxFilterWords
\* words "go" (a common word) and "cat"; texts with punctuation and capitals;
\* and longer texts with exact and near repeats of a pattern, at the word counts
\* where the pattern lengths, the threshold and the ratio change.
FilterTexts ==
    {SpacedText(ws, 1) : ws \in UNION {[1..n -> {"go", "cat"}] : n \in 0..MaxFilterWords}}
    \cup {"thank you thank you thank you", "you know you know you know you know",
          "Hat got, hat got! HAT GOT?", "... !!! ??? ;;; ...", "cat cat cat",
          "- cat - cat - cat -", "cat, cat; cat", "the cat sat on the mat today"}
    \cup {PaddedText(Repeat(<< "red", "cat" >>, n), total) :
              n \in 2..6, total \in {12, 20, 21, 50, 51, 60, 75, 90}}
    \cup {PaddedText(Repeat(<< "red", "cat", "sat" >>, n), total) :
              n \in 3..6, total \in {20, 21, 60, 90}}
    \cup {PaddedText(NearRepeats, total) : total \in {12, 19, 20, 21, 30}}

\* isRepetitiveText applied on its own.
ApplyIsRepetitive ==
    /\ fn = "none"
    /\ Len(fn_args) = 1
    /\ fn' = "isRepetitiveText"
    /\ fn_out' = [flagged |-> isRepetitiveText(fn_args[1])]
    /\ UNCHANGED fn_args
    /\ UNCHANGED << pipelinev, chunkerv, previous_audio, engine_audio, last_voiced,
                    enable_vad, running_energy_avg_, recognitions >>

\* ------------------------------------------- the ContextWindow's audio
\* Line 531: `(config_.context_duration_ms * SAMPLE_RATE) / 1000`
context_samples == context_duration * SAMPLE_RATE

\* updateContext, lines 531-539: the audio the context keeps of `audio_data`.
updateContextAudio(audio_data) ==
    IF Len(audio_data) <= context_samples THEN audio_data
    ELSE SubSeq(audio_data, Len(audio_data) - context_samples + 1, Len(audio_data))

\* StreamingTranscriber::prepareContextualAudio on a context holding `context_audio`.
prepareContextualAudio(context_audio, current_audio) ==
    IF context_audio = << >> THEN current_audio
    ELSE context_audio \o current_audio

\* updateContext given the audio with the context prepended, not the chunk's own.
ContextSourceContextual(audio_data, contextual_audio) == contextual_audio

\* Line 199: `updateContext(result, audio_data)`: the context is updated from
\* the chunk's own audio, not from the contextual_audio of line 437.
ContextSource(audio_data, contextual_audio) == audio_data

\* The chunks processAudioChunk is given in ContextAudioSpec.
ChunkAudios == UNION {[1..n -> Samples] : n \in 1..MaxChunkLen}

\* One processAudioChunk call, for the audio: the VAD gate rejects the chunk, or
\* the engine is called with the contextual audio and fails, gives no text, or
\* gives a text, and then the context is updated (lines 185-200, 437, 474-478).
RecognizeAudio ==
    /\ recognitions < MaxRecognitions
    /\ \E audio_data \in ChunkAudios, outcome \in {"gated", "failed", "empty", "text"} :
         LET contextual_audio == prepareContextualAudio(previous_audio, audio_data) IN
         /\ engine_audio' = IF outcome = "gated" THEN engine_audio ELSE contextual_audio
         /\ previous_audio' =
                IF outcome = "text"
                THEN updateContextAudio(ContextSource(audio_data, contextual_audio))
                ELSE previous_audio
         /\ last_voiced' = IF outcome = "text"
                           THEN [has |-> TRUE, audio |-> audio_data] ELSE last_voiced
    /\ recognitions' = recognitions + 1
    /\ UNCHANGED << pipelinev, chunkerv, fn, fn_args, fn_out, enable_vad,
                    running_energy_avg_ >>

\* --------------------------------------------------- the VAD gate
\* The chunks processAudioChunk is given in GateSpec, amplitudes in hundredths:
\* all zero, quiet, loud, and mixed.
GateAudios == {<< 0 >>, << 0, 0 >>, << 10 >>, << 400 >>, << 100, 400 >>}

\* StreamingTranscriber::detectVoiceActivity (lines 208-226) with
\* running_energy_avg_ = avg: the value returned and the average it leaves.
detectVoiceActivity(enabled, avg, audio_data) ==
    IF ~enabled THEN [voice |-> TRUE, avg |-> avg]
    ELSE LET energy == Sqrt(SumOfSquares(audio_data, Len(audio_data)) \div Len(audio_data))
             smooth == (gate_alpha * energy + (100 - gate_alpha) * avg) \div 100
         IN  [voice |-> 100 * energy > vad_threshold * smooth, avg |-> smooth]

\* Line 185 with the early return of line 186 taken for no chunk.
GateRejectsNever(enabled, voice) == FALSE

\* Line 185: `config_.enable_vad && !detectVoiceActivity(audio_data)`.
GateRejects(enabled, voice) == enabled /\ ~voice

\* One processAudioChunk call as a whole (lines 183-206): the gate, and for a
\* chunk it lets through the engine call on the contextual audio (it fails, or
\* leaves a text), the overlap removal, the context update and the callback with
\* onTranscriptionResult.  fn_args keeps the chunk, fn_out the gate's verdict
\* and the average it found, w_chunk what became of the chunk.
ProcessAudioChunk ==
    /\ recognitions < MaxRecognitions
    /\ \E audio_data \in GateAudios, failed \in BOOLEAN, engine_text \in EngineTexts :
         LET d     == detectVoiceActivity(enable_vad, running_energy_avg_, audio_data)
             gated == GateRejects(enable_vad, d.voice)
             contextual_audio == prepareContextualAudio(previous_audio, audio_data)
             text  == IF failed THEN ""
                      ELSE ResultText(context_.previous_text, engine_text)
         IN  /\ failed => engine_text = ""
             /\ gated => (~failed /\ engine_text = "")
             /\ running_energy_avg_' = d.avg
             /\ fn' = "processAudioChunk"
             /\ fn_args' = << audio_data >>
             /\ fn_out' = [voice |-> d.voice, avg_before |-> running_energy_avg_]
             /\ IF gated
                THEN /\ w_chunk' = [NoChunk EXCEPT !.id = recognitions + 1,
                                                   !.stage = "done", !.engine = "gated"]
                     /\ UNCHANGED << context_, previous_audio, engine_audio,
                                     last_voiced, accepted >>
                ELSE /\ w_chunk' =
                            [NoChunk EXCEPT
                                !.id = recognitions + 1,
                                !.stage = "done",
                                !.engine = IF failed THEN "failed" ELSE "ok",
                                !.text = text,
                                !.primed_with = context_.previous_text,
                                !.cbs = IF InvokesCallback(text, callback_) THEN 1 ELSE 0,
                                !.by = IF InvokesCallback(text, callback_)
                                       THEN "worker" ELSE "none",
                                !.outs = IF InvokesCallback(text, callback_)
                                            /\ Transcribes(text) THEN 1 ELSE 0]
                     /\ engine_audio' = contextual_audio
                     /\ context_' = IF UpdatesContext(text)
                                    THEN updateContext(text) ELSE context_
                     /\ previous_audio' =
                            IF UpdatesContext(text)
                            THEN updateContextAudio(ContextSource(audio_data,
                                                                  contextual_audio))
                            ELSE previous_audio
                     /\ last_voiced' = IF UpdatesContext(text)
                                       THEN [has |-> TRUE, audio |-> audio_data]
                                       ELSE last_voiced
                     /\ accepted' = IF InvokesCallback(text, callback_)
                                       /\ Transcribes(text)
                                    THEN text ELSE accepted
    /\ recognitions' = recognitions + 1
    /\ UNCHANGED << is_running_, callback_, audio_queue_, audio_queue_mutex_,
                    cpc, rpc, wpc, pipe_failed, r_chunk, produced, ncalls, last_call,
                    enqueued, dequeued, dropped, stop_blocked, chunkerv, enable_vad >>

\* The audio side of the context before any chunk.
ContextAudioInit ==
    /\ previous_audio = << >>
    /\ engine_audio = << >>
    /\ last_voiced = [has |-> FALSE, audio |-> << >>]
    /\ enable_vad = TRUE
    /\ running_energy_avg_ = 0
    /\ recognitions = 0

\* The arguments one of the two text functions is about to be applied to.
TextArgs ==
    {<< previous_text, text >> : previous_text \in OverlapTexts, text \in OverlapTexts}
    \cup {<< previous_text >> : previous_text \in PromptTexts}

\* The context manager with nothing applied and no audio kept.
ContextInit ==
    /\ fn = "none"
    /\ fn_args = << >>
    /\ fn_out = [text |-> ""]
    /\ ContextAudioInit

\* ------------------------------------------------------------------ Init
\* The StreamingTranscriber as its constructor leaves it, no thread started.
PipelineInit ==
    /\ is_running_ = FALSE
    /\ callback_ = 0
    /\ audio_queue_ = << >>
    /\ audio_queue_mutex_ = "free"
    /\ context_ = [previous_text |-> "", word_count |-> 0]
    /\ cpc = "idle"
    /\ rpc = "none"
    /\ wpc = "none"
    /\ pipe_failed = FALSE
    /\ r_chunk = 0
    /\ w_chunk = NoChunk
    /\ produced = 0
    /\ ncalls = 0
    /\ last_call = "none"
    /\ enqueued = << >>
    /\ dequeued = << >>
    /\ dropped = {}
    /\ accepted = ""
    /\ stop_blocked = FALSE

\* The configuration the pipeline's chunker is built with.
PipelineConfig ==
    [min_chunk_duration |-> 2, optimal_chunk_duration |-> 3,
     max_chunk_duration |-> 5, min_silence_duration |-> 2]

\* The pipeline on a source with enough audio to overflow the queue.
Init ==
    /\ PipelineInit
    /\ ChunkerInit(PipelineConfig)
    /\ ContextInit
    /\ source_chunks = MaxChunks

\* The pipeline on a short source.
FairInit ==
    /\ PipelineInit
    /\ ChunkerInit(PipelineConfig)
    /\ ContextInit
    /\ source_chunks = MaxLiveChunks

\* A chunker of any of the configurations, nothing else started.
ChunkerSpecInit ==
    /\ PipelineInit
    /\ \E cfg \in Configs : ChunkerInit(cfg)
    /\ ContextInit
    /\ source_chunks = 0

\* The context's audio alone: no thread started, no source.
ContextAudioSpecInit ==
    /\ PipelineInit
    /\ ChunkerInit(PipelineConfig)
    /\ ContextInit
    /\ source_chunks = 0

\* One of the chunker's functions about to be applied to arguments.
CutSpecInit ==
    /\ PipelineInit
    /\ ChunkerInit(PipelineConfig)
    /\ fn = "none"
    /\ \/ fn_args \in {a \in ExtractArgs : a[3] <= Len(a[1])}
       \/ fn_args \in {a \in ProcessArgs : Len(a[2]) < min_samples(a[1])}
    /\ fn_out = [text |-> ""]
    /\ ContextAudioInit
    /\ source_chunks = 0

\* A detector alone, the chunker's or one built with the default threshold.
VadSpecInit ==
    /\ PipelineInit
    /\ config_ = PipelineConfig
    /\ buffer_ = << >>
    /\ last_speech_time_ = 0
    /\ chunk_out = NoOutput
    /\ fed = 0
    /\ largest_batch = 0
    /\ timestamps = << >>
    /\ vad_ \in {VoiceActivityDetector(threshold, default_window_size) :
                    threshold \in {chunker_vad_threshold, default_threshold}}
    /\ vad_out = NoVadOutput
    /\ ContextInit
    /\ source_chunks = 0

\* The transcriber after start() has given it a callback, its worker about to
\* call processAudioChunk; the gate enabled or disabled.
GateSpecInit ==
    /\ is_running_ = TRUE
    /\ callback_ = 1
    /\ audio_queue_ = << >>
    /\ audio_queue_mutex_ = "free"
    /\ context_ = [previous_text |-> "", word_count |-> 0]
    /\ cpc = "idle"
    /\ rpc = "done"
    /\ wpc = "process"
    /\ pipe_failed = FALSE
    /\ r_chunk = 0
    /\ w_chunk = NoChunk
    /\ produced = 0
    /\ ncalls = 1
    /\ last_call = "start"
    /\ enqueued = << >>
    /\ dequeued = << >>
    /\ dropped = {}
    /\ accepted = ""
    /\ stop_blocked = FALSE
    /\ ChunkerInit(PipelineConfig)
    /\ fn = "none"
    /\ fn_args = << >>
    /\ fn_out = [text |-> ""]
    /\ previous_audio = << >>
    /\ engine_audio = << >>
    /\ last_voiced = [has |-> FALSE, audio |-> << >>]
    /\ enable_vad \in BOOLEAN
    /\ running_energy_avg_ = 0
    /\ recognitions = 0
    /\ source_chunks = 0

\* The repetition filter about to be applied to a text.
FilterSpecInit ==
    /\ PipelineInit
    /\ ChunkerInit(PipelineConfig)
    /\ fn = "none"
    /\ fn_args \in {<< text >> : text \in FilterTexts}
    /\ fn_out = [text |-> ""]
    /\ ContextAudioInit
    /\ source_chunks = 0

\* One of the text functions about to be applied to arguments.
TextSpecInit ==
    /\ PipelineInit
    /\ ChunkerInit(PipelineConfig)
    /\ fn = "none"
    /\ fn_args \in TextArgs
    /\ fn_out = [text |-> ""]
    /\ ContextAudioInit
    /\ source_chunks = 0

shared   == << is_running_, callback_, audio_queue_, audio_queue_mutex_, context_ >>
callerv  == << cpc, ncalls, last_call, stop_blocked >>
readerv  == << rpc, pipe_failed, r_chunk, produced, enqueued, dropped >>
workerv  == << wpc, w_chunk, dequeued, accepted >>

\* ------------------------------------------------- the caller's thread
\* start() without the test of line 59: the callback is replaced and a reader
\* thread created although the pipeline runs.
StartWhileRunning ==
    /\ UNCHANGED << chunkerv, contextv >>
    /\ cpc = "idle" /\ ncalls < MaxCalls
    /\ is_running_
    /\ callback_' = ncalls + 1
    /\ rpc' = "open"
    /\ ncalls' = ncalls + 1
    /\ last_call' = "start_rejected"
    /\ UNCHANGED << is_running_, audio_queue_, audio_queue_mutex_, context_, cpc,
                    stop_blocked, pipe_failed, r_chunk, produced, enqueued, dropped,
                    workerv >>

\* start(), lines 59-62: already running.
StartRejected ==
    /\ UNCHANGED << chunkerv, contextv >>
    /\ cpc = "idle" /\ ncalls < MaxCalls
    /\ is_running_
    /\ ncalls' = ncalls + 1
    /\ last_call' = "start_rejected"
    /\ UNCHANGED << shared, cpc, stop_blocked, readerv, workerv >>

\* start(), lines 59-68: the callback is stored, the flag set and the reader
\* thread created.
StartCall ==
    /\ UNCHANGED << chunkerv, contextv >>
    /\ cpc = "idle" /\ ncalls < MaxCalls
    /\ ~is_running_
    /\ callback_' = ncalls + 1
    /\ is_running_' = TRUE
    /\ rpc' = "open"
    /\ cpc' = "start_worker"
    /\ ncalls' = ncalls + 1
    /\ last_call' = "start"
    /\ UNCHANGED << audio_queue_, audio_queue_mutex_, context_, stop_blocked,
                    pipe_failed, r_chunk, produced, enqueued, dropped, workerv >>

\* start(), line 69: the transcription thread is created.
StartWorker ==
    /\ UNCHANGED << chunkerv, contextv >>
    /\ cpc = "start_worker"
    /\ wpc' = "loop"
    /\ cpc' = "idle"
    /\ UNCHANGED << shared, ncalls, last_call, stop_blocked, readerv,
                    w_chunk, dequeued, accepted >>

\* stop() without the test of line 75: it goes on to wake the worker and join.
StopWhileNotRunning ==
    /\ UNCHANGED << chunkerv, contextv >>
    /\ cpc = "idle" /\ ncalls < MaxCalls
    /\ ~is_running_
    /\ cpc' = "stop_store"
    /\ ncalls' = ncalls + 1
    /\ last_call' = "stop_noop"
    /\ UNCHANGED << shared, stop_blocked, readerv, workerv >>

\* stop(), lines 75-77: not running, nothing to do.
StopNotRunning ==
    /\ UNCHANGED << chunkerv, contextv >>
    /\ cpc = "idle" /\ ncalls < MaxCalls
    /\ ~is_running_
    /\ ncalls' = ncalls + 1
    /\ last_call' = "stop_noop"
    /\ UNCHANGED << shared, cpc, stop_blocked, readerv, workerv >>

\* stop(), line 75: the flag is read and found set.
StopCall ==
    /\ UNCHANGED << chunkerv, contextv >>
    /\ cpc = "idle" /\ ncalls < MaxCalls
    /\ is_running_
    /\ cpc' = "stop_store"
    /\ ncalls' = ncalls + 1
    /\ last_call' = "stop"
    /\ stop_blocked' = (wpc = "waiting" /\ audio_queue_ = << >>)
    /\ UNCHANGED << shared, readerv, workerv >>

\* stop(), line 79: is_running_.store(false).
StopStore ==
    /\ UNCHANGED << chunkerv, contextv >>
    /\ cpc = "stop_store"
    /\ is_running_' = FALSE
    /\ cpc' = "stop_notify"
    /\ UNCHANGED << callback_, audio_queue_, audio_queue_mutex_, context_,
                    ncalls, last_call, stop_blocked, readerv, workerv >>

\* notify_one / notify_all on audio_queue_cv_: a thread blocked in wait() is
\* made runnable; it has the mutex to take before wait() goes on.
Notified(pc) == IF pc = "waiting" THEN "wake" ELSE pc

\* stop(), line 80: audio_queue_cv_.notify_all().
StopNotify ==
    /\ UNCHANGED << chunkerv, contextv >>
    /\ cpc = "stop_notify"
    /\ wpc' = Notified(wpc)
    /\ cpc' = "stop_join_reader"
    /\ UNCHANGED << shared, ncalls, last_call, stop_blocked, readerv,
                    w_chunk, dequeued, accepted >>

\* stop(), lines 82-84: join the reader thread if joinable.
StopJoinReader ==
    /\ UNCHANGED << chunkerv, contextv >>
    /\ cpc = "stop_join_reader"
    /\ rpc \in {"none", "done"}
    /\ rpc' = "none"
    /\ cpc' = "stop_join_worker"
    /\ UNCHANGED << shared, ncalls, last_call, stop_blocked, pipe_failed, r_chunk,
                    produced, enqueued, dropped, workerv >>

\* stop() that returns without joining the transcription thread.
StopWithoutJoinWorker ==
    /\ UNCHANGED << chunkerv, contextv >>
    /\ cpc = "stop_join_worker"
    /\ cpc' = "idle"
    /\ stop_blocked' = FALSE
    /\ UNCHANGED << shared, ncalls, last_call, readerv, workerv >>

\* stop(), lines 85-89: join the transcription thread if joinable, and return.
StopJoinWorker ==
    /\ UNCHANGED << chunkerv, contextv >>
    /\ cpc = "stop_join_worker"
    /\ wpc \in {"none", "done"}
    /\ wpc' = "none"
    /\ cpc' = "idle"
    /\ stop_blocked' = FALSE
    /\ UNCHANGED << shared, ncalls, last_call, readerv, w_chunk, dequeued, accepted >>


\* ------------------------------------------------- the audio reader thread
\* Lines 93-97: the pipe is opened; the thread returns if that fails.
ReaderOpen ==
    /\ UNCHANGED << chunkerv, contextv >>
    /\ rpc = "open"
    /\ \E opened \in BOOLEAN : rpc' = IF opened THEN "loop" ELSE "done"
    /\ pipe_failed' = FALSE
    /\ UNCHANGED << shared, callerv, r_chunk, produced, enqueued, dropped, workerv >>

\* Line 104: `while (is_running_.load())`
ReaderLoop ==
    /\ UNCHANGED << chunkerv, contextv >>
    /\ rpc = "loop"
    /\ rpc' = IF is_running_ THEN "read" ELSE "done"
    /\ UNCHANGED << shared, callerv, pipe_failed, r_chunk, produced, enqueued,
                    dropped, workerv >>

\* Lines 155-158: pipe.read() fails (end of file, or the stream already failed);
\* the thread sleeps 10 ms and goes round the loop.
ReaderReadFails ==
    /\ UNCHANGED << chunkerv, contextv >>
    /\ rpc = "read"
    /\ pipe_failed' = TRUE
    /\ rpc' = "loop"
    /\ UNCHANGED << shared, callerv, r_chunk, produced, enqueued, dropped, workerv >>

\* Lines 107-119, 151-153: a sample is read; read_buffer is not yet 1024 samples
\* long, or it is and processAudio returns no chunk.
ReaderReadNoChunk ==
    /\ UNCHANGED << chunkerv, contextv >>
    /\ rpc = "read"
    /\ ~pipe_failed
    /\ rpc' = "loop"
    /\ UNCHANGED << shared, callerv, pipe_failed, r_chunk, produced, enqueued,
                    dropped, workerv >>

\* Lines 107-119: the sample read completes a batch and processAudio returns a
\* chunk.
ReaderReadChunk ==
    /\ UNCHANGED << chunkerv, contextv >>
    /\ rpc = "read"
    /\ ~pipe_failed
    /\ produced < source_chunks
    /\ produced' = produced + 1
    /\ r_chunk' = produced + 1
    /\ rpc' = "enqueue_lock"
    /\ UNCHANGED << shared, callerv, pipe_failed, enqueued, dropped, workerv >>

\* Line 121: std::lock_guard on audio_queue_mutex_.
ReaderLock ==
    /\ UNCHANGED << chunkerv, contextv >>
    /\ rpc = "enqueue_lock"
    /\ audio_queue_mutex_ = "free"
    /\ audio_queue_mutex_' = "reader"
    /\ rpc' = "enqueue"
    /\ UNCHANGED << is_running_, callback_, audio_queue_, context_, callerv,
                    pipe_failed, r_chunk, produced, enqueued, dropped, workerv >>

\* Lines 122-126, 152: the chunk is queued and the worker notified, or the queue
\* is full and the chunk is let go; the lock is released and read_buffer cleared.
ReaderEnqueue ==
    /\ UNCHANGED << chunkerv, contextv >>
    /\ rpc = "enqueue"
    /\ audio_queue_mutex_ = "reader"
    /\ audio_queue_' = Enqueue(audio_queue_, r_chunk)
    /\ IF Len(audio_queue_) < MAX_QUEUE_SIZE
       THEN /\ wpc' = Notified(wpc)
            /\ enqueued' = Append(enqueued, r_chunk)
            /\ UNCHANGED dropped
       ELSE /\ dropped' = dropped \cup {r_chunk}
            /\ UNCHANGED << wpc, enqueued >>
    /\ audio_queue_mutex_' = "free"
    /\ r_chunk' = 0
    /\ rpc' = "loop"
    /\ UNCHANGED << is_running_, callback_, context_, callerv, pipe_failed, produced,
                    w_chunk, dequeued, accepted >>

\* ------------------------------------------------ the transcription thread
\* Line 163: `while (is_running_.load())`; the locals of the last iteration
\* (audio_data, timestamp, the result) are gone.
WorkerLoop ==
    /\ UNCHANGED << chunkerv, contextv >>
    /\ wpc = "loop"
    /\ wpc' = IF is_running_ THEN "lock" ELSE "done"
    /\ w_chunk' = NoChunk
    /\ UNCHANGED << shared, callerv, readerv, dequeued, accepted >>

\* Line 164 (std::unique_lock), and the mutex taken again inside wait() after a
\* notification.
WorkerLock ==
    /\ UNCHANGED << chunkerv, contextv >>
    /\ wpc \in {"lock", "wake"}
    /\ audio_queue_mutex_ = "free"
    /\ audio_queue_mutex_' = "worker"
    /\ wpc' = "wait_pred"
    /\ UNCHANGED << is_running_, callback_, audio_queue_, context_, callerv, readerv,
                    w_chunk, dequeued, accepted >>

\* Lines 165-167: wait() evaluates its predicate with the mutex held.
WorkerWaitPredicate ==
    /\ UNCHANGED << chunkerv, contextv >>
    /\ wpc = "wait_pred"
    /\ wpc' = IF audio_queue_ # << >> \/ ~is_running_ THEN "check" ELSE "wait_block"
    /\ UNCHANGED << shared, callerv, readerv, w_chunk, dequeued, accepted >>

\* Line 165: the predicate was false; wait() releases the mutex and blocks.
WorkerWaitBlock ==
    /\ UNCHANGED << chunkerv, contextv >>
    /\ wpc = "wait_block"
    /\ audio_queue_mutex_' = "free"
    /\ wpc' = "waiting"
    /\ UNCHANGED << is_running_, callback_, audio_queue_, context_, callerv, readerv,
                    w_chunk, dequeued, accepted >>

\* std::condition_variable::wait may return without a notification.
SpuriousWakeup ==
    /\ UNCHANGED << chunkerv, contextv >>
    /\ wpc = "waiting"
    /\ wpc' = "wake"
    /\ UNCHANGED << shared, callerv, readerv, w_chunk, dequeued, accepted >>

\* Lines 169-171: the flag is clear; the loop is left and the lock released.
WorkerBreak ==
    /\ UNCHANGED << chunkerv, contextv >>
    /\ wpc = "check"
    /\ ~is_running_
    /\ audio_queue_mutex_' = "free"
    /\ wpc' = "done"
    /\ UNCHANGED << is_running_, callback_, audio_queue_, context_, callerv, readerv,
                    w_chunk, dequeued, accepted >>

\* The pop of lines 173-175 without the unlock of line 176: the worker goes into
\* processAudioChunk with the queue mutex held.
WorkerPopKeepLock ==
    /\ UNCHANGED << chunkerv, contextv >>
    /\ wpc = "check"
    /\ is_running_
    /\ audio_queue_ # << >>
    /\ w_chunk' = [NoChunk EXCEPT !.id = QueueFront(audio_queue_), !.stage = "popped"]
    /\ dequeued' = Append(dequeued, QueueFront(audio_queue_))
    /\ audio_queue_' = QueuePop(audio_queue_)
    /\ wpc' = "process"
    /\ UNCHANGED << is_running_, callback_, audio_queue_mutex_, context_, callerv,
                    readerv, accepted >>

\* Lines 169-176: the flag is set; the front chunk is moved out of the queue and
\* the lock released (with an empty queue the lock is just released).
WorkerPop ==
    /\ UNCHANGED << chunkerv, contextv >>
    /\ wpc = "check"
    /\ is_running_
    /\ IF audio_queue_ # << >>
       THEN /\ w_chunk' = [NoChunk EXCEPT !.id = QueueFront(audio_queue_),
                                          !.stage = "popped"]
            /\ dequeued' = Append(dequeued, QueueFront(audio_queue_))
            /\ audio_queue_' = QueuePop(audio_queue_)
            /\ wpc' = "process"
       ELSE /\ wpc' = "loop"
            /\ UNCHANGED << w_chunk, dequeued, audio_queue_ >>
    /\ audio_queue_mutex_' = "free"
    /\ UNCHANGED << is_running_, callback_, context_, callerv, readerv, accepted >>

\* processAudioChunk, lines 185-187: the VAD gate rejects the chunk.
WorkerGated ==
    /\ UNCHANGED << chunkerv, contextv >>
    /\ wpc = "process"
    /\ w_chunk' = [w_chunk EXCEPT !.stage = "done", !.engine = "gated"]
    /\ wpc' = "loop"
    /\ UNCHANGED << shared, callerv, readerv, dequeued, accepted >>

\* processAudioChunk, lines 190-200: the engine is called with the context's
\* prompt (it fails, or leaves a text), the overlap is removed and the context
\* updated.
WorkerRecognize ==
    /\ UNCHANGED << chunkerv, contextv >>
    /\ wpc = "process"
    /\ \E failed \in BOOLEAN, engine_text \in EngineTexts :
         LET text == IF failed THEN ""
                     ELSE ResultText(context_.previous_text, engine_text)
         IN  /\ failed => engine_text = ""
             /\ w_chunk' = [w_chunk EXCEPT
                              !.stage = "recognized",
                              !.engine = IF failed THEN "failed" ELSE "ok",
                              !.text = text,
                              !.primed_with = context_.previous_text]
             /\ context_' = IF UpdatesContext(text)
                            THEN updateContext(text) ELSE context_
    /\ wpc' = "deliver"
    /\ UNCHANGED << is_running_, callback_, audio_queue_, audio_queue_mutex_,
                    callerv, readerv, dequeued, accepted >>

\* processAudioChunk, lines 203-205, and onTranscriptionResult: the callback is
\* called with the result, on this thread; it writes the text out unless it is
\* too short or repetitive.
WorkerDeliver ==
    /\ UNCHANGED << chunkerv, contextv >>
    /\ wpc = "deliver"
    /\ IF InvokesCallback(w_chunk.text, callback_)
       THEN /\ w_chunk' = [w_chunk EXCEPT
                             !.stage = "done",
                             !.cbs = @ + 1,
                             !.by = "worker",
                             !.outs = IF Transcribes(w_chunk.text) THEN @ + 1 ELSE @]
            /\ accepted' = IF Transcribes(w_chunk.text) THEN w_chunk.text ELSE accepted
       ELSE /\ w_chunk' = [w_chunk EXCEPT !.stage = "done"]
            /\ UNCHANGED accepted
    /\ wpc' = "loop"
    /\ UNCHANGED << shared, callerv, readerv, dequeued >>

\* ------------------------------------------------------------------ Next
Next ==
    \/ StartRejected \/ StartCall \/ StartWorker
    \/ StopNotRunning \/ StopCall \/ StopStore \/ StopNotify
    \/ StopJoinReader \/ StopJoinWorker
    \/ ReaderOpen \/ ReaderLoop \/ ReaderReadFails \/ ReaderReadNoChunk
    \/ ReaderReadChunk \/ ReaderLock \/ ReaderEnqueue
    \/ WorkerLoop \/ WorkerLock \/ WorkerWaitPredicate \/ WorkerWaitBlock
    \/ SpuriousWakeup \/ WorkerBreak \/ WorkerPop
    \/ WorkerGated \/ WorkerRecognize \/ WorkerDeliver

Spec == Init /\ [][Next]_vars

\* The chunker alone, fed batch after batch.
ChunkerNext == ProcessAudio

ChunkerSpec == ChunkerSpecInit /\ [][ChunkerNext]_vars

\* removeContextualOverlap and prepareContextPrompt applied to texts.
TextNext == ApplyRemoveOverlap \/ ApplyPreparePrompt

TextSpec == TextSpecInit /\ [][TextNext]_vars

\* extractChunk and processAudio applied to buffers.
CutNext == ApplyExtractChunk \/ ApplyProcessAudio

CutSpec == CutSpecInit /\ [][CutNext]_vars

\* isRepetitiveText applied to texts.
FilterNext == ApplyIsRepetitive

FilterSpec == FilterSpecInit /\ [][FilterNext]_vars

\* The detector alone: classification calls and resets.
VadNext == IsVoiceActive \/ VadReset

VadSpec == VadSpecInit /\ [][VadNext]_vars

\* Chunk after chunk through the whole of processAudioChunk.
GateNext == ProcessAudioChunk

GateSpec == GateSpecInit /\ [][GateNext]_vars

\* Chunk after chunk through processAudioChunk, for the context's audio.
ContextAudioNext == RecognizeAudio

ContextAudioSpec == ContextAudioSpecInit /\ [][ContextAudioNext]_vars

\* The transcription thread's own steps, the reader's, and the steps of the
\* caller's thread inside start() and stop().
WorkerStep ==
    \/ WorkerLoop \/ WorkerLock \/ WorkerWaitPredicate \/ WorkerWaitBlock
    \/ WorkerBreak \/ WorkerPop \/ WorkerGated \/ WorkerRecognize \/ WorkerDeliver

ReaderStep ==
    \/ ReaderOpen \/ ReaderLoop \/ ReaderReadFails \/ ReaderReadNoChunk
    \/ ReaderReadChunk \/ ReaderLock \/ ReaderEnqueue

CallerStep == StartWorker \/ StopStore \/ StopNotify \/ StopJoinReader \/ StopJoinWorker

\* Every thread that can run does run; nothing makes the caller call start() or
\* stop(), and nothing makes a wait() return without a notification.
FairSpec ==
    /\ FairInit /\ [][Next]_vars
    /\ WF_vars(WorkerStep) /\ WF_vars(ReaderStep) /\ WF_vars(CallerStep)

\* ======================================================== the claims

\* C1 - Shutdown liveness: when stop() is called while the transcription thread
\* is blocked in its condition-variable wait on an empty queue, both threads end
\* and are joined, and stop() returns.
C1_ShutdownLiveness ==
    stop_blocked ~> (cpc = "idle" /\ rpc = "none" /\ wpc = "none")

\* The part of C1 that holds: a worker that is blocked on an empty queue once
\* stop() has cleared the flag (line 79) is woken by the notify_all of line 80,
\* both threads end and stop() returns.
StopWakesBlockedWorker ==
    (cpc = "stop_notify" /\ wpc = "waiting" /\ audio_queue_ = << >>)
        ~> (cpc = "idle" /\ rpc = "none" /\ wpc = "none")

\* C2 - Queue bound: the transcription queue never holds more than
\* MAX_QUEUE_SIZE (10) chunks, whatever the interleaving of the two threads.
C2_QueueBound == Len(audio_queue_) <= MAX_QUEUE_SIZE

\* The queue is full and the reader has come with an eleventh chunk.
C2_Witness ==
    Len(audio_queue_) = MAX_QUEUE_SIZE /\ rpc = "enqueue" /\ r_chunk # 0

\* C3 - Drop on overflow: when the reader has a chunk and the queue holds 10, its
\* step is there to take (it does not wait for room), the queue is left as it
\* was, the chunk is in no queue afterwards and the reader goes on to its loop.
C3_DropOnOverflow ==
    [][ (rpc = "enqueue" /\ Len(audio_queue_) >= MAX_QUEUE_SIZE /\ rpc' # rpc)
        => /\ audio_queue_' = audio_queue_
           /\ r_chunk \notin Range(audio_queue_')
           /\ r_chunk' = 0
           /\ rpc' = "loop"
           /\ audio_queue_mutex_' = "free" ]_vars

\* A chunk was dropped on a full queue and the reader is back in its loop.
C3_Witness ==
    dropped # {} /\ Len(audio_queue_) = MAX_QUEUE_SIZE /\ rpc = "loop"

\* C4 - Queue ordering: the chunks the worker has taken are, in order and without
\* repetition, the first of the chunks that were put into the queue; the rest of
\* them are still queued, in that order.
C4_QueueOrdering ==
    /\ Len(dequeued) <= Len(enqueued)
    /\ dequeued = SubSeq(enqueued, 1, Len(dequeued))
    /\ audio_queue_ = SubSeq(enqueued, Len(dequeued) + 1, Len(enqueued))

\* Producer and consumer have interleaved: chunks taken, chunks waiting, and a
\* chunk that never got in.
C4_Witness ==
    Len(dequeued) >= 2 /\ Len(audio_queue_) >= 2 /\ dropped # {}

\* C5 - Chunker boundary bound: whatever the batches and the configuration
\* (min <= optimal <= max), a chunk processAudio returns has at least
\* min_chunk_duration and at most max_chunk_duration worth of samples.
C5_ChunkerBoundaryBound ==
    chunk_out.has =>
        /\ Len(chunk_out.audio) >= min_samples(config_)
        /\ Len(chunk_out.audio) <= max_samples(config_)

C8_NoStalePriming ==
    /\ wpc \notin {"deliver"} => context_.previous_text \in {"", accepted}
    /\ ~isRepetitiveText(w_chunk.primed_with)

\* C9 - start() while running is a no-op: a start() call that finds the flag set
\* creates no thread and leaves the callback, the queue, the context, the chunker
\* and both threads as they are.
C9_StartWhileRunningNoOp ==
    [][ (is_running_ /\ ncalls' = ncalls + 1 /\ last_call' \in {"start", "start_rejected"})
        => UNCHANGED << shared, cpc, stop_blocked, readerv, workerv, chunkerv >> ]_vars

\* start() was called while both threads of an earlier start() were alive.
C9_Witness ==
    /\ last_call = "start_rejected" /\ is_running_
    /\ rpc \notin {"none", "done"} /\ wpc \notin {"none", "done"}

\* C10 - stop() is idempotent: a stop() call that finds the flag clear (never
\* started, or stopped already) changes nothing.
C10_StopIdempotent ==
    [][ (~is_running_ /\ ncalls' = ncalls + 1 /\ last_call' \in {"stop", "stop_noop"})
        => UNCHANGED << shared, cpc, stop_blocked, readerv, workerv, chunkerv >> ]_vars

\* stop() was called again after a stop() that had stopped a running pipeline.
C10_Witness ==
    /\ last_call = "stop_noop" /\ callback_ # 0
    /\ ~is_running_ /\ rpc = "none" /\ wpc = "none"

\* C11 - stop() waits for in-flight recognition: whenever stop() has returned and
\* start() has not been called since (or was never called), no transcription
\* thread exists, so no recognition and no callback is in progress or still to come.
C11_StopWaitsForRecognition ==
    (cpc = "idle" /\ ~is_running_) => wpc = "none"

\* stop() has cleared the flag and joined the reader, and waits in join() while
\* the worker is between the engine call and the callback for a chunk.
C11_Witness ==
    cpc = "stop_join_worker" /\ ~is_running_ /\ wpc = "deliver" /\ w_chunk.text # ""

\* C12 - No draining on shutdown: a chunk that was in the queue when the worker
\* saw the running flag clear and left its loop is never taken out of the queue
\* for recognition.
C12_NoDrainingOnShutdown ==
    \A c \in 1..MaxChunks :
        []( (~is_running_ /\ wpc = "check" /\ c \in Range(audio_queue_))
            => [](c \notin Range(dequeued)) )

\* The part of C12 that holds: a worker that finds the flag clear (line 163, or
\* lines 165-171 with the mutex held) takes nothing from the queue and ends.
WorkerExitsWithoutDraining ==
    [][ (~is_running_ /\ wpc \in {"loop", "wait_pred", "check"} /\ wpc' # wpc)
        => /\ wpc' \in {"check", "done"}
           /\ audio_queue_' = audio_queue_ /\ dequeued' = dequeued
           /\ w_chunk'.id = 0 ]_vars

\* C14 - Source unavailability is recovered by retry: while the pipeline runs the
\* reader thread has not ended, and whenever it is at its read a sample the
\* source delivers can be read.
C14_SourceRetry ==
    /\ is_running_ => rpc # "done"
    /\ (is_running_ /\ rpc = "read") => ENABLED ReaderReadNoChunk

\* C16 - No persistence across runs: a start() that starts the pipeline finds,
\* and leaves, the queue empty, the ContextWindow empty, and the chunker's buffer
\* empty with its clock at zero.
C16_NoPersistenceAcrossRuns ==
    [][ (~is_running_ /\ is_running_')
        => /\ audio_queue_' = << >>
           /\ context_' = [previous_text |-> "", word_count |-> 0]
           /\ buffer_' = << >> /\ last_speech_time_' = 0 ]_vars

\* C17 - Context lock discipline: every read and write of a ContextWindow field
\* that the worker has made for the chunk it has recognised was made with
\* context_mutex_ held, the reads of previous_text for overlap removal included.
C17_ContextLockDiscipline ==
    w_chunk.stage \in {"recognized", "done"} /\ w_chunk.engine \in {"ok", "failed"} =>
        \A a \in Range(ContextAccesses(w_chunk.engine = "failed", w_chunk.primed_with,
                                       w_chunk.text, w_chunk.text)) : a.locked

\* C13 - Ingestion never blocks on recognition latency: while the worker is in
\* processAudioChunk (engine call, callback) it does not hold the queue mutex,
\* and a reader that has a chunk to offer can take its next step: take the
\* mutex, or, holding it, enqueue or drop.
C13_IngestionNeverBlocks ==
    wpc \in {"process", "deliver"} =>
        /\ audio_queue_mutex_ # "worker"
        /\ rpc = "enqueue_lock" => ENABLED ReaderLock
        /\ rpc = "enqueue" => ENABLED ReaderEnqueue

\* The reader holds the mutex with a chunk to offer while the worker is inside
\* processAudioChunk for an earlier one.
C13_Witness ==
    wpc = "process" /\ rpc = "enqueue" /\ audio_queue_mutex_ = "reader"

\* C15 - Engine failure is non-fatal: the step in which the engine fails leaves
\* the ContextWindow as it was; a chunk whose engine call failed has an empty
\* text and no callback call; and the worker goes back to its loop.
C15_EngineFailureNonFatal ==
    /\ [](w_chunk.engine = "failed" => (w_chunk.text = "" /\ w_chunk.cbs = 0))
    /\ [][ (w_chunk'.engine = "failed" /\ w_chunk.engine # "failed")
            => context_' = context_ ]_vars
    /\ [][ (w_chunk.engine = "failed" /\ wpc = "deliver" /\ wpc' # wpc)
            => (wpc' = "loop" /\ w_chunk'.cbs = 0 /\ context_' = context_) ]_vars

\* The engine failed on a chunk after an earlier chunk had filled the context;
\* the worker is back in its loop and the next chunk waits in the queue.
C15_Witness ==
    /\ w_chunk.engine = "failed" /\ w_chunk.stage = "done" /\ wpc = "loop"
    /\ context_.previous_text # "" /\ audio_queue_ # << >>

\* ------------------------------------------------- texts of the context
\* The text has no leading or trailing whitespace, and its words are separated
\* by one space each.
SingleSpaced(t) ==
    \A i \in 1..Len(t) :
        IsSpace(SubSeq(t, i, i)) =>
            /\ SubSeq(t, i, i) = " "
            /\ i > 1
            /\ i < Len(t)
            /\ ~IsSpace(SubSeq(t, i + 1, i + 1))

\* The overlap the scan retains: the largest length up to 10 at which the last
\* words of the previous text are the first words of the current one, 0 if none.
RetainedOverlap(prev_words, curr_words) ==
    LET lengths == {i \in 1..Min(Min(Len(prev_words), Len(curr_words)), 10) :
                       TailMatchesHead(prev_words, curr_words, i)}
    IN  IF lengths = {} THEN 0
        ELSE CHOOSE i \in lengths : \A j \in lengths : j <= i

\* C18: for a previous text P and a result text R with retained overlap n, the
\* emitted text is the words n..|R|-1 of R joined by single spaces when
\* 0 < n < |R|, and R unchanged when n = 0 or n = |R|; the previous text
\* "the quick brown fox jumps" and the result "brown fox jumps over the lazy
\* dog" give "over the lazy dog".
C18_OverlapRemovalResult ==
    fn = "removeContextualOverlap" =>
        LET P  == fn_args[1]
            R  == fn_args[2]
            rw == Words(R)
            n  == RetainedOverlap(Words(P), rw)
        IN  /\ (0 < n /\ n < Len(rw)) =>
                   /\ Words(fn_out.text) = SubSeq(rw, n + 1, Len(rw))
                   /\ SingleSpaced(fn_out.text)
            /\ (n = 0 \/ n = Len(rw)) => fn_out.text = R
            /\ (P = "the quick brown fox jumps"
                    /\ R = "brown fox jumps over the lazy dog") =>
                   fn_out.text = "over the lazy dog"

\* The documented example has been applied and three words were stripped.
C18_Witness ==
    /\ fn = "removeContextualOverlap"
    /\ fn_args = << "the quick brown fox jumps", "brown fox jumps over the lazy dog" >>
    /\ RetainedOverlap(Words(fn_args[1]), Words(fn_args[2])) = 3
    /\ fn_out.text = "over the lazy dog"

\* C19: prepareContextPrompt returns the last min(max_prompt_tokens / 2, n) words
\* of the previous text of n words, in order, joined by single spaces, with no
\* leading or trailing whitespace; the empty text gives the empty prompt, and
\* the engine gets no priming text exactly when the prompt is empty; a text of
\* 500 words gives its last 100.
C19_ContextTruncation ==
    fn = "prepareContextPrompt" =>
        LET previous_text == fn_args[1]
            words         == Words(previous_text)
            kept          == Min(max_prompt_tokens \div 2, Len(words))
        IN  /\ Words(fn_out.text) = SubSeq(words, Len(words) - kept + 1, Len(words))
            /\ SingleSpaced(fn_out.text)
            /\ previous_text = "" => fn_out.text = ""
            /\ fn_out.text = "" => ~fn_out.initial_prompt.primed
            /\ fn_out.text # "" => fn_out.initial_prompt = [primed |-> TRUE,
                                                            text |-> fn_out.text]
            /\ Len(words) = 500 =>
                   fn_out.text = JoinFrom(SubSeq(words, 401, 500), 1)

\* A previous text of more than a hundred words was cut to its last hundred.
C19_Witness ==
    /\ fn = "prepareContextPrompt"
    /\ Len(Words(fn_args[1])) > max_prompt_tokens \div 2
    /\ Len(Words(fn_out.text)) = max_prompt_tokens \div 2
    /\ fn_out.initial_prompt.primed

\* ------------------------------------------------- audio of the context
\* The trailing n samples of the audio, all of it when it has no more.
Trailing(audio, n) ==
    SubSeq(audio, Len(audio) - Min(n, Len(audio)) + 1, Len(audio))

\* C20: after any sequence of recognitions previous_audio holds at most
\* context_duration worth of samples, and it is the trailing
\* min(context_duration, chunk length) samples of the most recent chunk whose
\* recognition gave a non-empty text, without any of the context audio that was
\* prepended for the engine; it is empty while no chunk has given a text.
C20_ContextAudioBound ==
    /\ Len(previous_audio) <= context_duration * SAMPLE_RATE
    /\ last_voiced.has =>
           previous_audio = Trailing(last_voiced.audio, context_duration * SAMPLE_RATE)
    /\ ~last_voiced.has => previous_audio = << >>

\* A chunk shorter than the context duration gave a text after the engine had
\* been called with earlier context audio in front of it.
C20_Witness ==
    /\ last_voiced.has
    /\ Len(last_voiced.audio) < context_duration * SAMPLE_RATE
    /\ previous_audio = last_voiced.audio
    /\ Len(engine_audio) > Len(last_voiced.audio)
    /\ Trailing(engine_audio, Len(last_voiced.audio)) = last_voiced.audio

\* ------------------------------------------------ the repetition filter
\* C21: isRepetitiveText returns false for every text shorter than 10
\* characters and for every text with fewer than 4 cleaned words, whatever the
\* words are.
C21_ShortTextNeverFlagged ==
    (fn = "isRepetitiveText"
        /\ (Len(fn_args[1]) < 10 \/ Len(CleanWords(fn_args[1])) < 4))
    => ~fn_out.flagged

\* The filter was applied to a text of 10 characters or more in which one word
\* comes three times, and which has fewer than 4 cleaned words.
C21_Witness ==
    /\ fn = "isRepetitiveText"
    /\ Len(fn_args[1]) >= 10
    /\ CleanWords(fn_args[1]) = << "cat", "cat", "cat" >>
    /\ ~fn_out.flagged

\* The L words of the text from its k-th word on.
Window(words, k, L) == SubSeq(words, k, k + L - 1)

\* The positions at which two windows of the same length have the same word.
Agreement(a, b) == Cardinality({j \in 1..Len(a) : a[j] = b[j]})

\* The repetitions a text of `total` words must have: 3 up to 20 words, 4 for
\* 21 to 50, and max(5, total / 15) above 50.
RequiredRepetitions(total) ==
    CASE total <= 20 -> 3
      [] total >= 21 /\ total <= 50 -> 4
      [] OTHER -> Max(5, total \div 15)

\* Some pattern of the words, of a length in [max(2, total/20), min(8, total/3)]
\* and not made of stop-words only, has enough exact windows, or enough exact and
\* fuzzy windows with (exact + 0.5 * fuzzy) * L / total > 0.4; a fuzzy window is
\* not exact and agrees with the pattern in at least 70% of the positions.
RepetitionCriterion(words) ==
    LET total == Len(words) IN
    \E L \in Max(2, total \div 20)..Min(8, total \div 3) :
        \E s \in 1..(total - L + 1) :
            LET pattern == Window(words, s, L)
                offsets == 1..(total - L + 1)
                exact   == Cardinality({k \in offsets : Window(words, k, L) = pattern})
                fuzzy   == Cardinality({k \in offsets :
                               /\ Window(words, k, L) # pattern
                               /\ 100 * Agreement(Window(words, k, L), pattern) >= 70 * L})
                T       == RequiredRepetitions(total)
            IN  /\ ~(\A j \in 1..L : pattern[j] \in common_words)
                /\ \/ exact >= T
                   \/ /\ exact + fuzzy >= T
                      /\ 10 * (2 * exact + fuzzy) * L > 8 * total

\* C29: for a text of at least 10 characters with at least 4 cleaned words,
\* isRepetitiveText returns true exactly when some pattern of a length in
\* [max(2, total/20), min(8, total/3)], not made only of stop-words, has
\* exact >= T, or exact + fuzzy >= T and (exact + 0.5 * fuzzy) * L / total > 0.4,
\* with T = 3 for total <= 20, 4 for 21..50 and max(5, total/15) above.
C29_RepetitionDecision ==
    (fn = "isRepetitiveText"
        /\ Len(fn_args[1]) >= 10 /\ Len(CleanWords(fn_args[1])) >= 4)
    => (fn_out.flagged <=> RepetitionCriterion(CleanWords(fn_args[1])))

\* A text of 19 words was flagged for a four-word pattern with one exact and
\* two fuzzy windows, no pattern of it reaching three exact windows.
C29_Witness ==
    /\ fn = "isRepetitiveText"
    /\ fn_args[1] = PaddedText(NearRepeats, 19)
    /\ fn_out.flagged
    /\ LET words == CleanWords(fn_args[1]) IN
       /\ ExactCount(words, 0, 4) = 1
       /\ FuzzyCount(words, 0, 4) = 2
       /\ \A len \in 2..6 : \A start \in 0..(19 - len) :
              ExactCount(words, start, len) < 3

\* ------------------------------------------------------ the overlap scan
\* The last i words of the previous text are the first i words of the current.
OverlapMatches(prev_words, curr_words, i) ==
    /\ i <= Len(prev_words)
    /\ i <= Len(curr_words)
    /\ SubSeq(prev_words, Len(prev_words) - i + 1, Len(prev_words))
           = SubSeq(curr_words, 1, i)

\* C27: removeContextualOverlap checks every length i from 1 to
\* min(10, |previous words|, |current words|) in ascending order without
\* stopping at the first match, and retains the matching length found last in
\* that scan, 0 if no length matches.
C27_OverlapScanOrder ==
    fn = "removeContextualOverlap" =>
        LET prev_words == Words(fn_args[1])
            curr_words == Words(fn_args[2])
            scanned    == 1..Min(10, Min(Len(prev_words), Len(curr_words)))
            matching   == {i \in scanned : OverlapMatches(prev_words, curr_words, i)}
        IN  /\ matching = {} => fn_out.overlap_count = 0
            /\ matching # {} =>
                   /\ fn_out.overlap_count \in matching
                   /\ \A i \in matching : i <= fn_out.overlap_count

\* The scan went on after a first match: lengths 1 and 3 match, 2 does not,
\* and 3 is retained.
C27_Witness ==
    /\ fn = "removeContextualOverlap"
    /\ LET prev_words == Words(fn_args[1])
           curr_words == Words(fn_args[2])
       IN  /\ OverlapMatches(prev_words, curr_words, 1)
           /\ ~OverlapMatches(prev_words, curr_words, 2)
           /\ OverlapMatches(prev_words, curr_words, 3)
    /\ fn_out.overlap_count = 3

\* C28 as stated: among the pairs of a previous and a current text the function
\* is applied to, there is one for which some length i <= 10 matches and the
\* scan retains an overlap length shorter than i.
C28_RetainsShorterThanAMatch ==
    /\ fn_args \in TextArgs
    /\ \E args \in TextArgs :
          /\ Len(args) = 2
          /\ args[1] # "" /\ args[2] # ""
          /\ \E i \in 1..10 :
                /\ OverlapMatches(Words(args[1]), Words(args[2]), i)
                /\ OverlapCount(Words(args[1]), Words(args[2])) < i

\* C28, amended: the retained overlap length is never shorter than a matching
\* length i <= 10; the ascending scan retains the longest match of at most 10
\* words.
C28_RetainsLongestMatch ==
    fn = "removeContextualOverlap" =>
        \A i \in 1..10 :
            OverlapMatches(Words(fn_args[1]), Words(fn_args[2]), i)
                => fn_out.overlap_count >= i

\* Two lengths match and the longer one is retained.
C28_Witness ==
    /\ fn = "removeContextualOverlap"
    /\ \E i \in 1..10, j \in 1..10 :
          /\ i < j
          /\ OverlapMatches(Words(fn_args[1]), Words(fn_args[2]), i)
          /\ OverlapMatches(Words(fn_args[1]), Words(fn_args[2]), j)
          /\ fn_out.overlap_count = j
    /\ fn_out.text # fn_args[2]

\* ------------------------------------------------- the chunker's cuts
\* C23: extractChunk at offset k within the buffer emits the first k buffered
\* samples with the clock's value from before the call as timestamp; for
\* k > overlap it leaves the last `overlap` samples of the extracted region
\* followed by the samples beyond k, for k <= overlap an empty buffer; and the
\* clock advances by (k - overlap) / sample_rate.
C23_ChunkExtraction ==
    fn = "extractChunk" =>
        LET buf  == fn_args[1]
            time == fn_args[2]
            k    == fn_args[3]
        IN  /\ fn_out.chunk.has
            /\ Len(fn_out.chunk.audio) = k
            /\ \A j \in 1..k : fn_out.chunk.audio[j] = buf[j]
            /\ fn_out.chunk.timestamp = time
            /\ k > 2 * SAMPLE_RATE =>
                   fn_out.buffer = SubSeq(buf, k - 2 * SAMPLE_RATE + 1, k)
                                       \o SubSeq(buf, k + 1, Len(buf))
            /\ k <= 2 * SAMPLE_RATE => fn_out.buffer = << >>
            /\ (fn_out.time - time) * SAMPLE_RATE = k - 2 * SAMPLE_RATE

\* A chunk was cut in the middle of the buffer, beyond the overlap: the overlap
\* and the samples behind the cut are left.
C23_Witness ==
    /\ fn = "extractChunk"
    /\ fn_args[3] > 2 * SAMPLE_RATE
    /\ fn_args[3] < Len(fn_args[1])
    /\ Len(fn_out.buffer) = 2 * SAMPLE_RATE + Len(fn_args[1]) - fn_args[3]
    /\ fn_out.time > fn_args[2]

\* The buffer a processAudio call works on: the old buffer and the batch.
Appended == fn_args[2] \o fn_args[4]

\* The offsets i (from 0) with optimal <= i < max whose window of min_silence
\* samples lies inside the buffer and has every amplitude below the threshold.
WindowsBelowThreshold ==
    LET cfg == fn_args[1] IN
    {i \in optimal_samples(cfg)..(max_samples(cfg) - 1) :
        /\ i + silence_samples(cfg) <= Len(Appended)
        /\ \A j \in (i + 1)..(i + silence_samples(cfg)) :
               Appended[j] < silence_threshold}

\* The offsets i (from 0) with optimal <= i < max whose window of min_silence
\* samples ends before the last sample of the buffer and has no amplitude above
\* the threshold.
WindowsNotAboveThreshold ==
    LET cfg == fn_args[1] IN
    {i \in optimal_samples(cfg)..(max_samples(cfg) - 1) :
        /\ i + silence_samples(cfg) < Len(Appended)
        /\ \A j \in (i + 1)..(i + silence_samples(cfg)) :
               Appended[j] <= silence_threshold}

\* The call has cut the buffer at the first of the windows, in its middle.
CutAtFirstOf(windows) ==
    /\ fn_out.chunk.has
    /\ \E i \in windows :
          /\ \A k \in windows : i <= k
          /\ Len(fn_out.chunk.audio) = i + silence_samples(fn_args[1]) \div 2

\* C25 as stated: with at least optimal_chunk_duration samples buffered,
\* processAudio cuts at i + min_silence / 2 for the smallest offset i with
\* optimal <= i < max whose window of min_silence samples is inside the buffer
\* and has every absolute amplitude below silence_threshold.
C25_SilenceCutPosition ==
    (fn = "processAudio"
        /\ Len(Appended) >= optimal_samples(fn_args[1])
        /\ WindowsBelowThreshold # {})
    => CutAtFirstOf(WindowsBelowThreshold)

\* C25, amended: with at least optimal_chunk_duration samples buffered,
\* processAudio cuts at i + min_silence / 2 for the smallest offset i with
\* optimal <= i < max whose window of min_silence samples ends before the last
\* buffered sample and has no absolute amplitude above silence_threshold; no
\* later window is chosen when an earlier one qualifies.
C25_SilenceCutAtOrBelowThreshold ==
    (fn = "processAudio"
        /\ Len(Appended) >= optimal_samples(fn_args[1])
        /\ WindowsNotAboveThreshold # {})
    => CutAtFirstOf(WindowsNotAboveThreshold)

\* Two windows qualify, the earlier one holds a sample at the threshold, and the
\* cut is in the middle of the earlier one.
C25_Witness ==
    /\ fn = "processAudio"
    /\ \E i \in WindowsNotAboveThreshold, k \in WindowsNotAboveThreshold :
          /\ i < k
          /\ \A m \in WindowsNotAboveThreshold : i <= m
          /\ i \notin WindowsBelowThreshold
          /\ fn_out.chunk.has
          /\ Len(fn_out.chunk.audio) = i + silence_samples(fn_args[1]) \div 2

\* The scan of the call found no silent window: it did not run, for want of
\* optimal_chunk_duration samples, or no window it examined was silent.
NoSilentWindowFound ==
    \/ Len(Appended) < optimal_samples(fn_args[1])
    \/ WindowsNotAboveThreshold = {}

\* C26: when the scan found no silent window, processAudio emits a chunk of
\* exactly max_chunk_duration samples if the buffer holds at least that many,
\* and otherwise emits nothing and leaves the buffer grown by the batch only.
C26_ForcedCut ==
    (fn = "processAudio" /\ NoSilentWindowFound) =>
        LET max == fn_args[1].max_chunk_duration * SAMPLE_RATE IN
        /\ Len(Appended) >= max =>
               /\ fn_out.chunk.has
               /\ fn_out.chunk.audio = SubSeq(Appended, 1, max)
        /\ Len(Appended) < max =>
               /\ ~fn_out.chunk.has
               /\ fn_out.buffer = fn_args[2] \o fn_args[4]
               /\ fn_out.time = fn_args[3]

\* More than max_chunk_duration samples of sound were buffered and the chunk
\* holds max_chunk_duration samples.
C26_Witness ==
    /\ fn = "processAudio"
    /\ NoSilentWindowFound
    /\ Len(Appended) > max_samples(fn_args[1])
    /\ fn_args[2] # << >>
    /\ fn_out.chunk.has
    /\ Len(fn_out.chunk.audio) = max_samples(fn_args[1])

\* C24: for every configuration and input stream, the timestamps of the chunks
\* the chunker emits one after the other, which are the timestamps enqueued and
\* dequeued, never decrease.
C24_TimestampsMonotonic ==
    \A i \in 1..Len(timestamps) : \A j \in 1..Len(timestamps) :
        i < j => timestamps[i] <= timestamps[j]

\* The part of C24 that holds: when every chunk so far was cut beyond the 2 s
\* overlap, which the default configuration (optimal 10 s) ensures, the clock
\* has never been set back and the timestamps do not decrease.
TimestampsMonotonicBeyondOverlap ==
    optimal_samples(config_) >= overlap_samples => C24_TimestampsMonotonic

\* ------------------------------------------------------------- shutdown
\* C22: for every interleaving of stop() with the worker loop, the one in which
\* stop() clears the flag and notifies after the worker has evaluated its wait
\* predicate and before it blocks included, the worker does not block for ever:
\* it ends, and stop() returns with both threads joined.
C22_NoLostWakeup ==
    (cpc = "stop_store") ~> (cpc = "idle" /\ rpc = "none" /\ wpc = "none")

\* ------------------------------------------------- voice activity detector
\* C30: an isVoiceActive call changes background_energy_ only when the energy
\* of its window is below twice the background_energy_ it found; every other
\* call leaves background_energy_ as it was.
C30_NoiseFloorUpdate ==
    vad_out.frame >= 0
        => (vad_out.after # vad_out.before => vad_out.energy < 2 * vad_out.before)

\* C30 as the code has it: the first call after construction or reset() sets
\* background_energy_ to the energy of its window, whatever it is; every later
\* call changes background_energy_ only when the energy of its window is below
\* twice the background_energy_ it found.
C30_NoiseFloorUpdateAfterFirstFrame ==
    /\ vad_out.frame = 0 => vad_out.after = vad_out.energy
    /\ vad_out.frame > 0
        => (vad_out.after # vad_out.before => vad_out.energy < 2 * vad_out.before)

\* A later call found a noise floor above zero and a window at least twice as
\* loud, and left the noise floor alone; the detector had been reset before.
C30_Witness ==
    /\ vad_out.frame > 0
    /\ vad_out.before > 0
    /\ vad_out.energy >= 2 * vad_out.before
    /\ vad_out.after = vad_out.before
    /\ vad_.frame_count_ = 0

\* ------------------------------------------- the filter's pattern lengths
\* C34: isRepetitiveText never flags a text with fewer than 6 cleaned words;
\* with 4 or 5 words no pattern length lies between max(2, total/20) and
\* min(8, total/3), whatever the words are.
C34_FewerThanSixWordsNeverFlagged ==
    (fn = "isRepetitiveText" /\ Len(CleanWords(fn_args[1])) < 6)
        => /\ ~fn_out.flagged
           /\ LET total == Len(CleanWords(fn_args[1])) IN
              total >= 4 => Max(2, total \div 20) > Min(8, total \div 3)

\* The filter has been applied to five times the same uncommon word, a text
\* long enough to reach the pattern loop, and has not flagged it.
C34_Witness ==
    /\ fn = "isRepetitiveText"
    /\ CleanWords(fn_args[1]) = << "cat", "cat", "cat", "cat", "cat" >>
    /\ Len(fn_args[1]) >= 10
    /\ ~fn_out.flagged

\* Six words are enough: six times the same uncommon word is flagged.
SixWordsFlagged ==
    (fn = "isRepetitiveText"
        /\ CleanWords(fn_args[1]) = << "cat", "cat", "cat", "cat", "cat", "cat" >>)
        => fn_out.flagged

\* ------------------------------------------------------------ the VAD gate
\* The samples of the chunk are all zero.
AllZero(audio_data) == \A k \in 1..Len(audio_data) : audio_data[k] = 0

\* C31: with VAD enabled, a chunk whose samples are all zero is classified as
\* non-speech, and for a chunk classified as non-speech processAudioChunk does
\* not call the engine, leaves the ContextWindow (text, word count and audio) as
\* it was and does not call the callback: of the transcriber's members only
\* running_energy_avg_ may change.
C31_GateEffect ==
    [][ (recognitions' = recognitions + 1 /\ fn' = "processAudioChunk" /\ enable_vad)
        => /\ AllZero(fn_args'[1]) => ~fn_out'.voice
           /\ ~fn_out'.voice
                => /\ w_chunk'.engine = "gated"
                   /\ w_chunk'.cbs = 0
                   /\ UNCHANGED << shared, previous_audio, engine_audio, last_voiced,
                                   accepted, callerv, readerv, dequeued, wpc,
                                   chunkerv, enable_vad >> ]_vars

\* An all-zero chunk has been rejected by the gate when the context held a text
\* and audio from an earlier chunk; the running average has changed.
C31_Witness ==
    /\ fn = "processAudioChunk"
    /\ enable_vad
    /\ AllZero(fn_args[1])
    /\ ~fn_out.voice
    /\ w_chunk.engine = "gated"
    /\ context_.previous_text # ""
    /\ previous_audio # << >>
    /\ running_energy_avg_ # fn_out.avg_before

\* ------------------------------------------------- the chunker's samples
\* The samples of `buf` after the first n are the end of `buffer`.
KeepsRest(buf, n, buffer) ==
    LET rest == Len(buf) - n IN
    /\ Len(buffer) >= rest
    /\ SubSeq(buffer, Len(buffer) - rest + 1, Len(buffer)) = SubSeq(buf, n + 1, Len(buf))

\* C32: a processAudio call loses no sample: when it emits no chunk the buffer
\* is the old buffer with the batch appended, and when it emits a chunk every
\* sample after the chunk's is still in the buffer.
C32_NoSampleLost ==
    fn = "processAudio" =>
        IF fn_out.chunk.has
        THEN /\ fn_out.chunk.audio = SubSeq(Appended, 1, Len(fn_out.chunk.audio))
             /\ KeepsRest(Appended, Len(fn_out.chunk.audio), fn_out.buffer)
        ELSE fn_out.buffer = Appended

\* Samples are lost only by a chunk no longer than the 2 s overlap: a call that
\* emits a longer chunk, or none, loses no sample.
NoSampleLostBeyondOverlap ==
    (fn = "processAudio" /\ fn_out.chunk.has
        /\ Len(fn_out.chunk.audio) <= overlap_samples)
    \/ C32_NoSampleLost

\* ------------------------------------------------ the minimum duration
\* C33: with optimal <= max, processAudio emits no chunk while the buffer holds
\* fewer than optimal_chunk_duration samples, every chunk cut at silence has at
\* least optimal + min_silence / 2 samples, and no chunk has a length from min
\* up to, but not including, optimal.
C33_MinNeverDecidesACut ==
    (fn = "processAudio" /\ optimal_samples(fn_args[1]) <= max_samples(fn_args[1]))
        => LET cfg == fn_args[1]
               len == Len(fn_out.chunk.audio)
           IN  /\ Len(Appended) < optimal_samples(cfg) => ~fn_out.chunk.has
               /\ (fn_out.chunk.has /\ ~NoSilentWindowFound)
                    => len >= optimal_samples(cfg) + silence_samples(cfg) \div 2
               /\ fn_out.chunk.has
                    => ~(min_samples(cfg) <= len /\ len < optimal_samples(cfg))

\* The buffer held at least min_chunk_duration samples and fewer than
\* optimal_chunk_duration after the batch, and the call emitted nothing.
C33_Witness ==
    /\ fn = "processAudio"
    /\ min_samples(fn_args[1]) <= Len(Appended)
    /\ Len(Appended) < optimal_samples(fn_args[1])
    /\ ~fn_out.chunk.has
    /\ fn_out.buffer = Appended

\* Over sequences of calls too, no chunk the chunker returns is shorter than
\* optimal_chunk_duration.
NoChunkBelowOptimal ==
    chunk_out.has => Len(chunk_out.audio) >= optimal_samples(config_)

=========================================================================
